---- MODULE Spec2Model ----
(***************************************************************************)
(* NGOClaw AI service: the JSON-RPC sideload dispatcher                    *)
(* (src/ai-service/src/sideload/handler.py, run_sideload in main.py), the  *)
(* text and image routers (domain/service), the use cases                  *)
(* (application/usecase), the skills and the gRPC servicer                 *)
(* (infrastructure/grpc_server/ai_service_server.py).                      *)
(*                                                                         *)
(* The specifications of the module:                                       *)
(*   SpecDispatch     the sideload read/dispatch/write loop                *)
(*   SpecRouter       ModelRouter lookups over a changing registry         *)
(*   SpecImageRouter  ImageRouter lookups                                  *)
(*   SpecExecute      GenerateResponseUseCase.execute, step by step        *)
(*   SpecStream       GenerateStream over execute_stream                   *)
(*   SpecGenerate     Generate over execute                                *)
(*   SpecHealth       HealthCheck                                          *)
(*   SpecSkill        ExecuteSkillUseCase, ExecuteSkill and tool/execute   *)
(*   SpecConstruct    AIRequest construction and its validation            *)
(*   SpecMessages     the message loop of provider/generate                *)
(*   SpecTransports   Generate and provider/generate over one router       *)
(*   SpecCapabilities sideload start-up and the initialize response        *)
(*   SpecBackRef      the request identity through one Generate call       *)
(*   SpecStreamCancel GenerateStream with cancellation (with fairness)     *)
(*   SpecStdio        the writers of the sideload's stdout                 *)
(*   SpecGenerateImage  gRPC GenerateImage                                 *)
(*   SpecRegistry     ModelRouter mutations and lookups against their log  *)
(*   SpecToolArguments  the argument map of tool/execute                   *)
(*   SpecGenerateWire the fields Generate passes between wire and use case *)
(*   SpecStreamChunks the chunks of GenerateStream and their request ids   *)
(*   SpecStop         the dispatch loop with stop() called from outside    *)
(***************************************************************************)
EXTENDS Integers, Sequences, FiniteSets, TLC

VARIABLES
    methods,    \* SideloadHandler._methods: method name -> handler
    running,    \* SideloadHandler._running
    pc,         \* position of SideloadHandler.run
    nread,      \* number of input lines read so far (history counter)
    lines,      \* the input lines read so far, in order (history)
    resp,       \* the local `response` of run's loop body
    out,        \* stdout: the lines written, each tagged with the input line it answers
    calls,      \* handler invocations, each tagged with the input line that caused it
    eof,        \* readline() has returned b"" (history)
    providers,      \* ModelRouter._providers: provider name -> provider instance
    routeResult,    \* outcome of the latest ModelRouter.get_provider call (history)
    imageProviders, \* ImageRouter._providers: the dict as its items, in insertion order
    imageResult,    \* outcome of the latest ImageRouter.get_provider call (history)
    exPc,           \* position of GenerateResponseUseCase.execute
    exReq,          \* the request execute was called with
    exProvider,     \* the local `provider` of execute
    exTrace,        \* the calls execute has made, in order, with what each returned (history)
    exResult,       \* what execute returned or raised
    stPc,           \* position of AIServiceServicer.GenerateStream and of execute_stream below it
    stReq,          \* the wire request GenerateStream was called with
    stDomain,       \* the AIRequest built from it
    stProvider,     \* the local `provider` of execute_stream
    stProduced,     \* fragments the provider's generate_stream has produced so far, in order
    stEnd,          \* how the provider's sequence ended: not yet, exhausted, or the fault it raised
    stYielded,      \* fragments execute_stream has yielded so far, in order (history)
    stFault,        \* the fault execute_stream raised and after how many fragments (history)
    stWire,         \* chunks GenerateStream has put on the wire, in order
    stStatus,       \* the status that ended the GenerateStream call
    gPc,            \* position of AIServiceServicer.Generate
    gReq,           \* the wire request Generate was called with
    gResponse,      \* the wire response Generate returned
    gStatus,        \* the status that ended the Generate call
    hProbes,        \* the names registered when HealthCheck ran, and the probes it made (history)
    hResponse,      \* the HealthCheckResponse, or the status that aborted the call
    skills,         \* InMemorySkillRegistry._skills: skill name -> skill
    skCall,         \* the latest skill call: transport and arguments (history)
    skRuns,         \* skill bodies run by the latest call (history)
    skResult,       \* what the latest skill call returned, raised or aborted with
    built,          \* the latest AIRequest construction: its arguments and what it returned or raised
    sideCall,       \* the latest provider/generate call: where it is, params, calls made, result, envelope
    caps,           \* the latest sideload start-up: config, router registry, initialize response
    conv,           \* the latest message conversion of provider/generate: messages and outcome
    stRelease,      \* GenerateStream: whether and where the call was cancelled, the generators open then and closed since
    stdio,           \* sideload stdout: the write calls made, and each task's pending write calls
    imgCall,        \* the latest GenerateImage call: where it is, request, calls made, outcome
    backRef,        \* the latest Generate call seen end to end: request id, router, provider answer, wire response
    regLog,         \* ModelRouter: the registrations and unregistrations made, in order (history)
    toolCall,       \* the latest tool/execute argument map and the skill call made from it
    stIds,          \* a GenerateStream call seen from the wire: request id, chunks with their ids, status
    genWire,        \* a Generate call seen from the wire: request, what execute was handed and returned, response
    stopLog         \* SideloadHandler.stop(): whether it was called, and the lines read by then (history)

dvars == <<methods, running, pc, nread, lines, resp, out, calls, eof>>
rvars == <<providers, routeResult>>
ivars == <<imageProviders, imageResult>>
evars == <<exPc, exReq, exProvider, exTrace, exResult>>
svars == <<stPc, stReq, stDomain, stProvider, stProduced, stEnd, stYielded, stFault, stWire, stStatus>>
gvars == <<gPc, gReq, gResponse, gStatus>>
hvars == <<hProbes, hResponse>>
kvars == <<skills, skCall, skRuns, skResult>>
zvars == <<regLog, toolCall, stIds, genWire, stopLog>>
yvars == <<built, sideCall, caps, conv, stRelease, stdio, imgCall, backRef, zvars>>
xvars == <<svars, gvars, hvars, kvars, yvars>>
vars == <<dvars, rvars, ivars, evars, xvars>>

(***************************************************************************)
(* Bounds of the model.                                                    *)
(***************************************************************************)
\* Input lines fed to the dispatch loop before end-of-input.
MaxLines == 2

(***************************************************************************)
(* Python / JSON values.  A value is a record of a type tag and its text,  *)
(* so that values of different Python types compare unequal.               *)
(***************************************************************************)
PyNone == [t |-> "none", v |-> "None"]
JInt(s) == [t |-> "int", v |-> s]
JStr(s) == [t |-> "str", v |-> s]
JList == [t |-> "list", v |-> "[]"]

\* hash(x) succeeds: dict.get(x) raises TypeError for a list or a dict key.
Hashable(x) == x.t \notin {"list", "dict"}

\* str(x) as used by the f-strings of handle_request.
PyStr(x) == x.v

\* JSON-RPC error codes.
PARSE_ERROR == -32700
METHOD_NOT_FOUND == -32601
INTERNAL_ERROR == -32603

(***************************************************************************)
(* Providers.  A provider instance is an object of one of the provider     *)
(* classes; two instances of one class are different objects.              *)
(***************************************************************************)
\* A model name, split after its leading family so that str.startswith on a
\* family prefix can be computed: the name is family \o rest.
Model(family, rest) == [family |-> family, rest |-> rest]
ModelName(m) == m.family \o m.rest
StartsWith(m, prefix) == m.family = prefix

Models ==
    {Model("claude-", "2.1"), Model("claude-", "next"),
     Model("gemini-", "3-flash"), Model("gemini-", "next")}

OPENAI_SUPPORTED_MODELS ==
    {"gpt-4o", "gpt-4o-mini", "gpt-4-turbo", "gpt-4", "gpt-3.5-turbo", "o1-preview", "o1-mini", "*"}
ANTHROPIC_SUPPORTED_MODELS ==
    {"claude-3-opus-20240229", "claude-3-sonnet-20240229", "claude-3-haiku-20240307",
     "claude-2.1", "claude-2.0", "claude-sonnet-4-5"}
GEMINI_SUPPORTED_MODELS ==
    {"gemini-3-flash", "gemini-3-pro-high", "gemini-3-pro-low", "gemini-2.5-flash",
     "gemini-2.5-flash-thinking"}
MINIMAX_SUPPORTED_MODELS ==
    {"MiniMax-M2.1", "MiniMax-M2.1-lightning", "abab6.5-chat", "abab6.5s-chat", "abab5.5-chat"}

Instance(cls, oid) == [cls |-> cls, oid |-> oid]
\* Python None where a provider is expected.
NoProvider == Instance("None", "none")

Instances ==
    {Instance("OpenAIProvider", "o1"), Instance("AnthropicProvider", "a1"),
     Instance("AnthropicProvider", "a2"), Instance("GeminiProvider", "g1")}

\* AIProvider.supports_model, per class.
supports_model(p, m) ==
    CASE p.cls = "OpenAIProvider" ->
            IF "*" \in OPENAI_SUPPORTED_MODELS THEN TRUE
            ELSE ModelName(m) \in OPENAI_SUPPORTED_MODELS
      [] p.cls = "AnthropicProvider" ->
            ModelName(m) \in ANTHROPIC_SUPPORTED_MODELS \/ StartsWith(m, "claude-")
      [] p.cls = "GeminiProvider" -> ModelName(m) \in GEMINI_SUPPORTED_MODELS
      [] p.cls = "MiniMaxProvider" ->
            \/ ModelName(m) \in MINIMAX_SUPPORTED_MODELS
            \/ StartsWith(m, "abab") \/ StartsWith(m, "MiniMax")

\* AIProvider.is_available, per class: the values a call can return.
is_available(p) ==
    CASE p.cls = "OpenAIProvider" -> {TRUE}
      [] p.cls = "AnthropicProvider" -> {TRUE}
      [] p.cls = "GeminiProvider" -> {TRUE, FALSE}
      [] p.cls = "MiniMaxProvider" -> {TRUE}

\* What a call returns or raises: a response entity, or an exception.
Return(val) == [raised |-> FALSE, exc |-> "", message |-> "", value |-> val]
Raise(exc, message) == [raised |-> TRUE, exc |-> exc, message |-> message, value |-> PyNone]

\* AIProvider.generate, per class: the outcomes a call can have.  OpenAIProvider
\* reads request.tools, which AIRequest does not have; the others return the
\* backend's answer as an AIResponse, whose construction rejects empty content,
\* or pass the backend's fault on.
Contents == {"content-1", "content-2"}

\* AnthropicProvider._map_model: the name the backend is asked for, which the
\* backend's response.model gives back.
map_model(m) ==
    IF ModelName(m) = "claude-sonnet-4-5" THEN "claude-3-sonnet-20240229" ELSE ModelName(m)

\* AIRequest.full_model_name: f"{self.provider}/{self.model}"
full_model_name(request) == request.provider \o "/" \o ModelName(request.model)

\* model_used of the AIResponse: AnthropicProvider passes response.model,
\* GeminiProvider request.full_model_name.
ModelUsed(p, request) ==
    IF p.cls = "GeminiProvider" THEN full_model_name(request) ELSE map_model(request.model)

generate(p, request) ==
    CASE p.cls = "OpenAIProvider" ->
            {Raise("AttributeError", "'AIRequest' object has no attribute 'tools'")}
      [] p.cls \in {"AnthropicProvider", "GeminiProvider"} ->
            {Return([content |-> c, model_used |-> ModelUsed(p, request), by |-> p]) : c \in Contents}
                \cup {Raise("ValueError", "Content cannot be empty"),
                      Raise("APIError", "backend fault")}

(***************************************************************************)
(* ModelRouter                                                             *)
(***************************************************************************)
ProviderNames == {"antigravity", "anthropic", "gemini"}

Requests == [provider : ProviderNames, model : Models]
NoRequest == [provider |-> "", model |-> Model("", "")]

\* The registries create_providers can hand to ModelRouter with these names.
StartupProviders ==
    [n \in {"antigravity", "anthropic"} |->
        IF n = "antigravity" THEN Instance("OpenAIProvider", "o1")
        ELSE Instance("AnthropicProvider", "a1")]

EmptyRegistry == [n \in {} |-> NoProvider]

\* dict.get(name): None when the name is absent.
RegistryGet(reg, name) == IF name \in DOMAIN reg THEN reg[name] ELSE NoProvider

NotFoundMessage(name) == "Provider '" \o name \o "' not found"
NotSupportedMessage(name, m) ==
    "Provider '" \o name \o "' does not support model '" \o ModelName(m) \o "'"

\* Mutant: get_provider without the supports_model test.
get_provider_unchecked(reg, request) ==
    LET provider == RegistryGet(reg, request.provider)
    IN  IF provider = NoProvider
        THEN Raise("ModelRouterError", NotFoundMessage(request.provider))
        ELSE Return(provider)

\* Mutant: get_provider with the image router's fallback scan.
get_provider_fallback(reg, request) ==
    LET provider == RegistryGet(reg, request.provider)
        others == {n \in DOMAIN reg : supports_model(reg[n], request.model)}
    IN  IF provider = NoProvider
        THEN IF others # {}
             THEN Return(reg[CHOOSE n \in others : TRUE])
             ELSE Raise("ModelRouterError", NotFoundMessage(request.provider))
        ELSE IF ~supports_model(provider, request.model)
        THEN Raise("ModelRouterError", NotSupportedMessage(request.provider, request.model))
        ELSE Return(provider)

\* ModelRouter.get_provider
get_provider(reg, request) ==
    LET provider == RegistryGet(reg, request.provider)
    IN  IF provider = NoProvider
        THEN Raise("ModelRouterError", NotFoundMessage(request.provider))
        ELSE IF ~supports_model(provider, request.model)
        THEN Raise("ModelRouterError", NotSupportedMessage(request.provider, request.model))
        ELSE Return(provider)

\* No get_provider call made yet.
NoRoute == [called |-> FALSE, request |-> NoRequest, reg |-> EmptyRegistry, result |-> Return(NoProvider)]

(***************************************************************************)
(* ImageRouter.  Its registry is a dict, modelled as the sequence of its   *)
(* items in insertion order, the order the fallback scan follows.          *)
(***************************************************************************)
IMAGE_SUPPORTED_MODELS == {"dall-e-3", "dall-e-2"}
\* The models of a second implementation of the ImageProvider interface.
OTHER_IMAGE_MODELS == {"sd-xl"}

ImageInstances ==
    {Instance("OpenAIImageProvider", "i1"), Instance("OpenAIImageProvider", "i2"),
     Instance("OtherImageProvider", "s1")}

ImageNames == {"openai", "local"}
ImageModels == {"dall-e-3", "sd-xl", "midjourney"}
ImageRequests == [provider : ImageNames \cup {"ghost"}, model : ImageModels]
NoImageRequest == [provider |-> "", model |-> ""]

\* ImageProvider.supports_model, per class.
image_supports_model(p, m) ==
    CASE p.cls = "OpenAIImageProvider" -> m \in IMAGE_SUPPORTED_MODELS
      [] p.cls = "OtherImageProvider" -> m \in OTHER_IMAGE_MODELS

\* The dicts with names of ImageNames, as item sequences.
ImageRegistries ==
    {<<>>}
    \cup {<<[name |-> n, provider |-> p]>> : n \in ImageNames, p \in ImageInstances}
    \cup {items \in {<<[name |-> n1, provider |-> p1], [name |-> n2, provider |-> p2]>> :
                        n1 \in ImageNames, n2 \in ImageNames,
                        p1 \in ImageInstances, p2 \in ImageInstances} :
            items[1].name # items[2].name}

ImageGet(items, name) ==
    IF \E i \in 1..Len(items) : items[i].name = name
    THEN items[CHOOSE i \in 1..Len(items) : items[i].name = name].provider
    ELSE NoProvider

\* The first item, in dict order, whose provider supports the model (0: none).
FirstSupporting(items, m) ==
    IF \E i \in 1..Len(items) : image_supports_model(items[i].provider, m)
    THEN CHOOSE i \in 1..Len(items) :
            /\ image_supports_model(items[i].provider, m)
            /\ \A j \in 1..(i - 1) : ~image_supports_model(items[j].provider, m)
    ELSE 0

ImageNotSupportedMessage(name, m) ==
    "Provider '" \o name \o "' does not support model '" \o m \o "'"

\* Mutant: the image router without its fallback scan (the text router's rule).
image_get_provider_strict(items, request) ==
    LET provider == ImageGet(items, request.provider)
    IN  IF provider = NoProvider
        THEN Raise("ImageRouterError", NotFoundMessage(request.provider))
        ELSE IF ~image_supports_model(provider, request.model)
        THEN Raise("ImageRouterError", ImageNotSupportedMessage(request.provider, request.model))
        ELSE Return(provider)

\* Mutant: the image router scanning the registry whenever the named provider
\* cannot serve the model, registered or not.
image_get_provider_scanning(items, request) ==
    LET provider == ImageGet(items, request.provider)
    IN  IF provider # NoProvider /\ image_supports_model(provider, request.model)
        THEN Return(provider)
        ELSE IF FirstSupporting(items, request.model) # 0
        THEN Return(items[FirstSupporting(items, request.model)].provider)
        ELSE IF provider = NoProvider
        THEN Raise("ImageRouterError", NotFoundMessage(request.provider))
        ELSE Raise("ImageRouterError", ImageNotSupportedMessage(request.provider, request.model))

\* ImageRouter.get_provider
image_get_provider(items, request) ==
    LET provider == ImageGet(items, request.provider)
    IN  IF provider = NoProvider
        THEN IF FirstSupporting(items, request.model) # 0
             THEN Return(items[FirstSupporting(items, request.model)].provider)
             ELSE Raise("ImageRouterError", NotFoundMessage(request.provider))
        ELSE IF ~image_supports_model(provider, request.model)
        THEN Raise("ImageRouterError", ImageNotSupportedMessage(request.provider, request.model))
        ELSE Return(provider)

NoImageRoute == [called |-> FALSE, request |-> NoImageRequest, result |-> Return(NoProvider)]

(***************************************************************************)
(* States of the components a specification leaves alone.                  *)
(***************************************************************************)
NoResult == Return(PyNone)

RouterIdle == providers = EmptyRegistry /\ routeResult = NoRoute
ImageIdle == imageProviders = <<>> /\ imageResult = NoImageRoute
ExecuteIdle ==
    /\ exPc = "idle"
    /\ exReq = NoRequest
    /\ exProvider = NoProvider
    /\ exTrace = <<>>
    /\ exResult = NoResult

\* A GenerateRequest message not yet received; numeric fields as in WireRequests.
NoWireRequest ==
    [provider |-> "", model |-> Model("", ""), prompt |-> "",
     max_tokens |-> 0, temperature |-> 0, top_p |-> 0]
\* No gRPC status yet: the call has not ended.
NoStatus == [code |-> "", message |-> ""]
\* No fault raised.
NoFault == [at |-> 0, fault |-> NoResult]
\* The provider's sequence has not ended.
NotEnded == [ended |-> FALSE, fault |-> NoResult]
NoWireResponse == [sent |-> FALSE]
\* HealthCheck has not run: nothing was registered at its call, no probe made.
NoProbes == [registered |-> {}, made |-> {}]
NoSkillCall == [via |-> "", name |-> "", input |-> "", registered |-> {}, body |-> NoResult]
\* How a skill call ended: it returned a value, raised, or was aborted with a status.
SkillOutcome(outcome, value, fault, status) ==
    [outcome |-> outcome, value |-> value, fault |-> fault, status |-> status]
NoSkillResult == SkillOutcome("none", PyNone, NoResult, NoStatus)

StreamIdle ==
    /\ stPc = "idle"
    /\ stReq = NoWireRequest
    /\ stDomain = NoRequest
    /\ stProvider = NoProvider
    /\ stProduced = <<>>
    /\ stEnd = NotEnded
    /\ stYielded = <<>>
    /\ stFault = NoFault
    /\ stWire = <<>>
    /\ stStatus = NoStatus
GenerateIdle ==
    /\ gPc = "idle"
    /\ gReq = NoWireRequest
    /\ gResponse = NoWireResponse
    /\ gStatus = NoStatus
HealthIdle ==
    /\ hProbes = NoProbes
    /\ hResponse = NoWireResponse
SkillIdle ==
    /\ skills = [n \in {} |-> ""]
    /\ skCall = NoSkillCall
    /\ skRuns = <<>>
    /\ skResult = NoSkillResult

\* A component that has not been used.
Unused == [used |-> FALSE]
BuiltIdle == built = Unused
SideCallIdle == sideCall = Unused
CapsIdle == caps = Unused
ConvIdle == conv = Unused
ReleaseIdle == stRelease = Unused
StdioIdle == stdio = Unused
ImgCallIdle == imgCall = Unused
BackRefIdle == backRef = Unused
RegLogIdle == regLog = Unused
ToolCallIdle == toolCall = Unused
StIdsIdle == stIds = Unused
StopLogIdle == stopLog = Unused
GenWireIdle == genWire = Unused
LastIdle == RegLogIdle /\ ToolCallIdle /\ StIdsIdle /\ StopLogIdle /\ GenWireIdle
LaterIdle ==
    /\ BuiltIdle /\ SideCallIdle /\ CapsIdle /\ ConvIdle
    /\ ReleaseIdle /\ StdioIdle /\ ImgCallIdle /\ BackRefIdle
    /\ LastIdle

(***************************************************************************)
(* Input lines.  A line is classified by what run and json.loads do with   *)
(* it; a JSON object carries the keys it has and their values.             *)
(*   blank      only whitespace: skipped by run                            *)
(*   badutf8    bytes that are not UTF-8: line.decode raises               *)
(*   overlong   longer than the StreamReader limit: readline raises        *)
(*   notjson    json.loads raises JSONDecodeError                          *)
(*   deepnest   nesting deeper than the interpreter's recursion limit:     *)
(*              json.loads raises RecursionError                           *)
(*   nonobject  valid JSON that is not an object (list, number, null, ...) *)
(*   object     a JSON object                                              *)
(***************************************************************************)
RegisteredNames == {"initialize", "shutdown", "provider/generate", "tool/execute", "ping"}

IdValues == {PyNone, JInt("0"), JInt("1")}
MethodValues == {JStr(n) : n \in RegisteredNames \cup {"nope"}} \cup {JList}

PlainLine(k) == [kind |-> k, keys |-> {}, id |-> PyNone, method |-> PyNone]

ObjectLine(ks, i, m) ==
    [kind |-> "object", keys |-> ks,
     id |-> IF "id" \in ks THEN i ELSE PyNone,
     method |-> IF "method" \in ks THEN m ELSE PyNone]

ObjectLines ==
    {ObjectLine(ks, i, m) : ks \in SUBSET {"id", "method"}, i \in IdValues, m \in MethodValues}

Lines ==
    {PlainLine(k) : k \in {"blank", "badutf8", "overlong", "notjson", "deepnest", "nonobject"}}
        \cup ObjectLines

\* The line of the spec's example: {"jsonrpc":"2.0","id":1,"method":"ping","params":{}}
PingLine == ObjectLine({"id", "method"}, JInt("1"), JStr("ping"))
\* The same line without "id".
PingNotification == ObjectLine({"method"}, PyNone, JStr("ping"))

\* dict.get(key, default) on the parsed message.
DictGet(msg, key, default) ==
    IF key \in msg.keys THEN (IF key = "id" THEN msg.id ELSE msg.method) ELSE default

(***************************************************************************)
(* The handlers run_sideload registers.  Calling a handler yields either a *)
(* coroutine (awaitable) whose await returns a value or raises, or, for a  *)
(* plain function, its return value, which is not awaitable.  `o` stands   *)
(* for what the params and the backends make the handler do.               *)
(***************************************************************************)
Outcomes == {"return", "raise"}

Returned(val, stops) ==
    [awaitable |-> TRUE, raises |-> FALSE, value |-> val, msg |-> "", stops |-> stops]
Raised(m) ==
    [awaitable |-> TRUE, raises |-> TRUE, value |-> "", msg |-> m, stops |-> FALSE]

handle_initialize(o) == Returned("{name, version, capabilities}", FALSE)

\* Mutant: a shutdown handler that forgets handler.stop().
handle_shutdown_no_stop(o) == Returned("{}", FALSE)

\* handler.stop(); return {}
handle_shutdown(o) == Returned("{}", TRUE)

\* ProviderHandler.handle_generate: returns a result object, or raises (params
\* that are no dict, AIRequest validation).
handle_generate(o) ==
    IF o = "return" THEN Returned("{content, finish_reason, model_used, tokens_used}", FALSE)
    ELSE Raised("Temperature must be between 0.0 and 2.0")

\* ToolHandler.handle_execute: returns a result object, or raises (params that
\* are no dict).
handle_execute(o) ==
    IF o = "return" THEN Returned("{output, success}", FALSE)
    ELSE Raised("'list' object has no attribute 'get'")

\* lambda p: {"pong": True} -- a plain function: its value is a dict, not a coroutine.
ping_lambda(o) ==
    [awaitable |-> FALSE, raises |-> FALSE, value |-> "{\"pong\": true}", msg |-> "", stops |-> FALSE]

CallHandler(h, o) ==
    CASE h = "handle_initialize" -> handle_initialize(o)
      [] h = "handle_shutdown" -> handle_shutdown(o)
      [] h = "handle_generate" -> handle_generate(o)
      [] h = "handle_execute" -> handle_execute(o)
      [] h = "ping_lambda" -> ping_lambda(o)

\* The method table after run_sideload's register_method calls.
RegisteredMethods ==
    [n \in RegisteredNames |->
        CASE n = "initialize" -> "handle_initialize"
          [] n = "shutdown" -> "handle_shutdown"
          [] n = "provider/generate" -> "handle_generate"
          [] n = "tool/execute" -> "handle_execute"
          [] n = "ping" -> "ping_lambda"]

(***************************************************************************)
(* Response envelopes (the dicts handed to json.dumps).                    *)
(***************************************************************************)
NoResponse == PyNone

SuccessEnvelope(id, result) == [jsonrpc |-> "2.0", id |-> id, result |-> result]
ErrorEnvelope(id, code, message) ==
    [jsonrpc |-> "2.0", id |-> id, error |-> [code |-> code, message |-> message]]

IsError(r) == "error" \in DOMAIN r
IsSuccess(r) == "result" \in DOMAIN r

\* `result = await handler(params)`: awaiting a value that is no awaitable raises
\* TypeError inside handle_request's try block.
AwaitHandler(r) ==
    IF ~r.awaitable
    THEN [raises |-> TRUE, value |-> "", msg |-> "object dict can't be used in 'await' expression"]
    ELSE [raises |-> r.raises, value |-> r.value, msg |-> r.msg]

\* Mutant: the except branch without its `if msg_id is None` test.
RespondReportsAllFaults(msg_id, a) ==
    IF ~a.raises
    THEN (IF msg_id = PyNone THEN NoResponse ELSE SuccessEnvelope(msg_id, a.value))
    ELSE ErrorEnvelope(msg_id, INTERNAL_ERROR, a.msg)

\* Mutant: the except branch only logs and returns None.
RespondDropsFaults(msg_id, a) ==
    IF ~a.raises
    THEN (IF msg_id = PyNone THEN NoResponse ELSE SuccessEnvelope(msg_id, a.value))
    ELSE NoResponse

\* The tail of handle_request once a handler was found: lines 57-72.
Respond(msg_id, a) ==
    IF ~a.raises
    THEN (IF msg_id = PyNone THEN NoResponse ELSE SuccessEnvelope(msg_id, a.value))
    ELSE (IF msg_id = PyNone THEN NoResponse ELSE ErrorEnvelope(msg_id, INTERNAL_ERROR, a.msg))

\* Mutant: the unknown-method branch reports the internal-error code.
NotFoundAsInternal(msg_id, method) ==
    IF msg_id = PyNone
    THEN NoResponse
    ELSE ErrorEnvelope(msg_id, INTERNAL_ERROR, "Method not found: " \o PyStr(method))

\* No handler under that name: lines 49-55.
NotFound(msg_id, method) ==
    IF msg_id = PyNone
    THEN NoResponse
    ELSE ErrorEnvelope(msg_id, METHOD_NOT_FOUND, "Method not found: " \o PyStr(method))

\* What handle_request does with one raw line: the response it returns (or the
\* exception that escapes it), the handler it invoked, and whether stop() ran.
Escapes(exc) == [escaped |-> TRUE, exc |-> exc, response |-> NoResponse, called |-> <<>>, stops |-> FALSE]
Returns(r, called, stops) == [escaped |-> FALSE, exc |-> "", response |-> r, called |-> called, stops |-> stops]

handle_request(table, raw, o) ==
    IF raw.kind = "notjson"
    THEN Returns(ErrorEnvelope(PyNone, PARSE_ERROR, "Parse error: " \o "Expecting value"), <<>>, FALSE)
    ELSE IF raw.kind = "deepnest" THEN Escapes("RecursionError")
    ELSE IF raw.kind = "nonobject" THEN Escapes("AttributeError")
    ELSE
        LET method == DictGet(raw, "method", JStr(""))
            msg_id == DictGet(raw, "id", PyNone)
        IN  IF ~Hashable(method) THEN Escapes("TypeError")
            ELSE IF ~(method.t = "str" /\ method.v \in DOMAIN table)
            THEN Returns(NotFound(msg_id, method), <<>>, FALSE)
            ELSE
                LET h == table[method.v]
                    r == CallHandler(h, o)
                    a == AwaitHandler(r)
                IN  Returns(Respond(msg_id, a),
                            <<[handler |-> h, raised |-> a.raises, msg |-> a.msg]>>, r.stops)

(***************************************************************************)
(* SideloadHandler.run                                                     *)
(***************************************************************************)
InitDispatch ==
    /\ methods = RegisteredMethods
    /\ running = FALSE
    /\ pc = "start"
    /\ nread = 0
    /\ lines = <<>>
    /\ resp = NoResponse
    /\ out = <<>>
    /\ calls = <<>>
    /\ eof = FALSE
    /\ RouterIdle /\ ImageIdle /\ ExecuteIdle
    /\ StreamIdle /\ GenerateIdle /\ HealthIdle /\ SkillIdle /\ LaterIdle

\* run(): self._running = True, up to `await loop.connect_read_pipe(...)`,
\* where run is suspended.
Start ==
    /\ pc = "start"
    /\ running' = TRUE
    /\ pc' = "connect"
    /\ UNCHANGED <<methods, nread, lines, resp, out, calls, eof>>
    /\ UNCHANGED <<rvars, ivars, evars, xvars>>

\* connect_read_pipe returns: run goes on to the loop test.
Connect ==
    /\ pc = "connect"
    /\ pc' = "loop"
    /\ UNCHANGED <<methods, running, nread, lines, resp, out, calls, eof>>
    /\ UNCHANGED <<rvars, ivars, evars, xvars>>

\* readline() returns b"": break.
ReadEOF ==
    /\ pc = "loop" /\ running
    /\ pc' = "exit"
    /\ eof' = TRUE
    /\ UNCHANGED <<methods, running, nread, lines, resp, out, calls>>
    /\ UNCHANGED <<rvars, ivars, evars, xvars>>

\* Mutant: a loop that hands each line to a task of its own and reads on while
\* the line is being handled or its response is waiting to be written.
AtReadlineOrBusy(p) == p \in {"loop", "handle", "write"}

\* Where run can be when it awaits reader.readline(): at the top of the loop
\* body, which it reaches only after the previous pass ended (handle_request
\* awaited, response written) or raised.
AtReadline(p) == p = "loop"

\* readline() and decode().strip(): a blank line continues, a line that cannot be
\* read or decoded raises into `except Exception` and the loop continues.
ReadLine(l) ==
    /\ AtReadline(pc) /\ running
    /\ nread < MaxLines
    /\ nread' = nread + 1
    /\ lines' = Append(lines, l)
    /\ pc' = IF l.kind \in {"blank", "badutf8", "overlong"} THEN "loop" ELSE "handle"
    /\ UNCHANGED <<methods, running, resp, out, calls, eof>>
    /\ UNCHANGED <<rvars, ivars, evars, xvars>>

\* response = await self.handle_request(raw); an exception escaping it is logged
\* by `except Exception` and the loop continues.
Dispatch(o) ==
    /\ pc = "handle"
    /\ LET r == handle_request(methods, lines[nread], o)
       IN  /\ calls' = calls \o [i \in 1..Len(r.called) |->
                                    [n |-> nread, handler |-> r.called[i].handler,
                                     raised |-> r.called[i].raised, msg |-> r.called[i].msg]]
           /\ running' = IF r.stops THEN FALSE ELSE running
           /\ resp' = r.response
           /\ pc' = IF r.escaped THEN "loop" ELSE "write"
    /\ UNCHANGED <<methods, nread, lines, out, eof>>
    /\ UNCHANGED <<rvars, ivars, evars, xvars>>

\* if response is not None: sys.stdout.write(response + "\n"); flush.
WriteResponse ==
    /\ pc = "write"
    /\ out' = IF resp # NoResponse THEN Append(out, [n |-> nread, line |-> resp]) ELSE out
    /\ resp' = NoResponse
    /\ pc' = "loop"
    /\ UNCHANGED <<methods, running, nread, lines, calls, eof>>
    /\ UNCHANGED <<rvars, ivars, evars, xvars>>

\* The while condition is false: leave the loop.
LoopExit ==
    /\ pc = "loop" /\ ~running
    /\ pc' = "exit"
    /\ UNCHANGED <<methods, running, nread, lines, resp, out, calls, eof>>
    /\ UNCHANGED <<rvars, ivars, evars, xvars>>

\* self._running = False; run returns.
Stop ==
    /\ pc = "exit"
    /\ running' = FALSE
    /\ pc' = "stopped"
    /\ UNCHANGED <<methods, nread, lines, resp, out, calls, eof>>
    /\ UNCHANGED <<rvars, ivars, evars, xvars>>

NextDispatch ==
    \/ Start
    \/ Connect
    \/ ReadEOF
    \/ \E l \in Lines : ReadLine(l)
    \/ \E o \in Outcomes : Dispatch(o)
    \/ WriteResponse
    \/ LoopExit
    \/ Stop

SpecDispatch == InitDispatch /\ [][NextDispatch]_vars

(***************************************************************************)
(* Properties of the dispatch loop.                                        *)
(***************************************************************************)
\* The output lines answering input line n, and the handlers invoked for it.
OutOf(n) == SelectSeq(out, LAMBDA e : e.n = n)
CallsOf(n) == SelectSeq(calls, LAMBDA e : e.n = n)

\* Input line n has been handled to the end (its response, if any, is written).
Completed(n) == n < nread \/ (n = nread /\ pc \in {"loop", "exit", "stopped"})

MsgId(l) == DictGet(l, "id", PyNone)
Method(l) == DictGet(l, "method", JStr(""))

\* A JSON object whose method, when present, is a string.
IsRpcMessage(l) == l.kind = "object" /\ Method(l).t = "str"
\* A notification: a JSON object whose id is absent (or null, which msg.get("id")
\* does not tell apart).
IsNotification(l) == l.kind = "object" /\ MsgId(l) = PyNone

PongEnvelope == SuccessEnvelope(JInt("1"), "{\"pong\": true}")

\* C1 (as claimed): once the line {"jsonrpc":"2.0","id":1,"method":"ping","params":{}}
\* is handled, exactly one line answers it, the success envelope with id 1 and
\* result {"pong": true}; the same line without id is answered by nothing.
C1_PingPong ==
    \A n \in 1..nread :
        Completed(n) =>
            /\ lines[n] = PingLine => OutOf(n) = <<[n |-> n, line |-> PongEnvelope]>>
            /\ lines[n] = PingNotification => OutOf(n) = <<>>

\* C2: no output line ever answers a notification, whether its method is unknown,
\* its handler returned or its handler raised.
C2_NotificationsUnanswered ==
    \A n \in 1..nread : IsNotification(lines[n]) => OutOf(n) = <<>>

\* Two notifications were handled to the end, the handler of one raised and the
\* handler of the other returned.
C2_Witness ==
    /\ nread = 2 /\ Completed(2)
    /\ IsNotification(lines[1]) /\ IsNotification(lines[2])
    /\ \E i \in 1..Len(calls) : calls[i].n = 1 /\ calls[i].raised
    /\ \E i \in 1..Len(calls) : calls[i].n = 2 /\ ~calls[i].raised

\* C3: a message whose method is not in the method table is answered, when it
\* carries a (non-null) id, by exactly one error response with code -32601 and
\* that id, and by nothing when it carries none; no handler is invoked for it.
C3_UnknownMethod ==
    \A n \in 1..nread :
        (Completed(n) /\ IsRpcMessage(lines[n]) /\ Method(lines[n]).v \notin DOMAIN methods) =>
            /\ CallsOf(n) = <<>>
            /\ MsgId(lines[n]) # PyNone =>
                  /\ Len(OutOf(n)) = 1
                  /\ IsError(OutOf(n)[1].line)
                  /\ OutOf(n)[1].line.error.code = METHOD_NOT_FOUND
                  /\ OutOf(n)[1].line.id = MsgId(lines[n])
            /\ MsgId(lines[n]) = PyNone => OutOf(n) = <<>>

\* An unknown method was answered with id 0, and an unknown notification dropped.
C3_Witness ==
    /\ nread = 2 /\ Completed(2)
    /\ lines[1] = ObjectLine({"id", "method"}, JInt("0"), JStr("nope"))
    /\ lines[2] = ObjectLine({"method"}, PyNone, JStr("nope"))
    /\ Len(out) = 1 /\ out[1].line.error.code = METHOD_NOT_FOUND

\* C4 (as claimed): every non-blank line that fails to parse as JSON is answered
\* by exactly one error response with code -32700 and a null id, and no handler
\* is invoked for it.
C4_UnparsableAnswered ==
    \A n \in 1..nread :
        (Completed(n) /\ lines[n].kind \in {"notjson", "deepnest", "badutf8"}) =>
            /\ CallsOf(n) = <<>>
            /\ Len(OutOf(n)) = 1
            /\ IsError(OutOf(n)[1].line)
            /\ OutOf(n)[1].line.error.code = PARSE_ERROR
            /\ OutOf(n)[1].line.id = PyNone

\* C5: when the handler of a request with an id raises, exactly one error response
\* answers it, with code -32603, the request's id and the fault's description,
\* and the loop goes on to its next read.
C5_HandlerFault ==
    \A n \in 1..nread :
        \A i \in 1..Len(calls) :
            (Completed(n) /\ calls[i].n = n /\ calls[i].raised /\ MsgId(lines[n]) # PyNone) =>
                /\ OutOf(n) = <<[n |-> n, line |->
                                   ErrorEnvelope(MsgId(lines[n]), INTERNAL_ERROR, calls[i].msg)]>>
                /\ (n = nread /\ pc = "loop") => running

\* A request whose handler raised was answered and a later line was handled.
C5_Witness ==
    /\ nread = 2 /\ Completed(2)
    /\ lines[1] = ObjectLine({"id", "method"}, JInt("1"), JStr("provider/generate"))
    /\ calls[1].raised
    /\ out[1].line = ErrorEnvelope(JInt("1"), INTERNAL_ERROR, "Temperature must be between 0.0 and 2.0")
    /\ Len(out) = 2

ShutdownRanFor(n) == \E i \in 1..Len(calls) : calls[i].n = n /\ calls[i].handler = "handle_shutdown"

\* C6: the loop ends on end-of-input or on the shutdown handler's stop, and on
\* nothing else: after end-of-input the loop has exited; once the shutdown handler
\* ran for a line, that line's response (if it has an id) is written and no
\* further line is read; the loop is left only after end-of-input or shutdown,
\* never because a line's handling raised.
C6_LoopTermination ==
    /\ eof => pc \in {"exit", "stopped"}
    /\ \A n \in 1..nread :
          ShutdownRanFor(n) =>
              /\ n = nread /\ ~running /\ ~eof
              /\ (Completed(n) /\ MsgId(lines[n]) # PyNone) =>
                    OutOf(n) = <<[n |-> n, line |-> SuccessEnvelope(MsgId(lines[n]), "{}")]>>
              /\ (Completed(n) /\ MsgId(lines[n]) = PyNone) => OutOf(n) = <<>>
    /\ pc \in {"exit", "stopped"} => (eof \/ \E n \in 1..nread : ShutdownRanFor(n))

\* A line's handling raised, then a shutdown request stopped the loop and was answered.
C6_Witness ==
    /\ pc = "stopped" /\ nread = 2 /\ ~eof
    /\ lines[1].kind = "nonobject"
    /\ lines[2] = ObjectLine({"id", "method"}, JInt("1"), JStr("shutdown"))
    /\ out = <<[n |-> 2, line |-> SuccessEnvelope(JInt("1"), "{}")]>>

(***************************************************************************)
(* ModelRouter: registration and lookup.                                   *)
(***************************************************************************)
DispatchIdle ==
    /\ methods = RegisteredMethods
    /\ running = FALSE
    /\ pc = "start"
    /\ nread = 0
    /\ lines = <<>>
    /\ resp = NoResponse
    /\ out = <<>>
    /\ calls = <<>>
    /\ eof = FALSE

InitRouter ==
    /\ providers \in {[n \in S |-> StartupProviders[n]] : S \in SUBSET DOMAIN StartupProviders}
    /\ routeResult = NoRoute
    /\ DispatchIdle /\ ImageIdle /\ ExecuteIdle
    /\ StreamIdle /\ GenerateIdle /\ HealthIdle /\ SkillIdle /\ LaterIdle

\* register_provider: self._providers[name] = provider
RegisterProvider(name, p) ==
    /\ providers' = [n \in DOMAIN providers \cup {name} |-> IF n = name THEN p ELSE providers[n]]
    /\ UNCHANGED <<routeResult, dvars, ivars, evars, xvars>>

\* unregister_provider: self._providers.pop(name, None)
UnregisterProvider(name) ==
    /\ providers' = [n \in DOMAIN providers \ {name} |-> providers[n]]
    /\ UNCHANGED <<routeResult, dvars, ivars, evars, xvars>>

\* A call of get_provider; the registry it ran on is kept with its outcome.
GetProvider(request) ==
    /\ routeResult' = [called |-> TRUE, request |-> request, reg |-> providers,
                       result |-> get_provider(providers, request)]
    /\ UNCHANGED <<providers, dvars, ivars, evars, xvars>>

NextRouter ==
    \/ \E name \in ProviderNames, p \in Instances : RegisterProvider(name, p)
    \/ \E name \in ProviderNames : UnregisterProvider(name)
    \/ \E request \in Requests : GetProvider(request)

SpecRouter == InitRouter /\ [][NextRouter]_vars

\* C7: get_provider either returns the provider registered under request.provider,
\* which supports request.model, or fails with exactly one of provider-not-found
\* (the name is not registered) and model-not-supported (it is, and supports_model
\* is false).
C7_RouteSound ==
    routeResult.called =>
        LET q == routeResult.request
            reg == routeResult.reg
            r == routeResult.result
        IN  \/ /\ ~r.raised
               /\ q.provider \in DOMAIN reg
               /\ r.value = reg[q.provider]
               /\ supports_model(r.value, q.model)
            \/ /\ r.raised /\ r.exc = "ModelRouterError"
               /\ r.message = NotFoundMessage(q.provider)
               /\ q.provider \notin DOMAIN reg
            \/ /\ r.raised /\ r.exc = "ModelRouterError"
               /\ r.message = NotSupportedMessage(q.provider, q.model)
               /\ q.provider \in DOMAIN reg
               /\ ~supports_model(reg[q.provider], q.model)

\* With two instances of one class registered under two names, a lookup returned
\* the one registered under the requested name.
C7_Witness ==
    /\ routeResult.called
    /\ routeResult.request = [provider |-> "anthropic", model |-> Model("claude-", "next")]
    /\ DOMAIN routeResult.reg = {"anthropic", "gemini"}
    /\ routeResult.reg["anthropic"] = Instance("AnthropicProvider", "a2")
    /\ routeResult.reg["gemini"] = Instance("AnthropicProvider", "a1")
    /\ ~routeResult.result.raised
    /\ routeResult.result.value = Instance("AnthropicProvider", "a2")

\* C8: a request naming an unregistered provider fails with provider-not-found even
\* when another registered provider supports the model, and a provider returned
\* is always the one registered under the requested name.
C8_NoFallback ==
    routeResult.called =>
        LET q == routeResult.request
            reg == routeResult.reg
            r == routeResult.result
        IN  /\ q.provider \notin DOMAIN reg =>
                  r.raised /\ r.message = NotFoundMessage(q.provider)
            /\ ~r.raised => RegistryGet(reg, q.provider) = r.value

\* The named provider was absent while another registered provider supported the
\* model, and the lookup failed.
C8_Witness ==
    /\ routeResult.called
    /\ routeResult.request.provider \notin DOMAIN routeResult.reg
    /\ \E n \in DOMAIN routeResult.reg :
          supports_model(routeResult.reg[n], routeResult.request.model)
    /\ routeResult.result.raised

(***************************************************************************)
(* ImageRouter: lookup over a registry fixed at construction.              *)
(***************************************************************************)
InitImageRouter ==
    /\ imageProviders \in ImageRegistries
    /\ imageResult = NoImageRoute
    /\ DispatchIdle /\ RouterIdle /\ ExecuteIdle
    /\ StreamIdle /\ GenerateIdle /\ HealthIdle /\ SkillIdle /\ LaterIdle

ImageGetProvider(request) ==
    /\ imageResult' = [called |-> TRUE, request |-> request,
                       result |-> image_get_provider(imageProviders, request)]
    /\ UNCHANGED <<imageProviders, dvars, rvars, evars, xvars>>

NextImageRouter == \E request \in ImageRequests : ImageGetProvider(request)

SpecImageRouter == InitImageRouter /\ [][NextImageRouter]_vars

ImageRegistered(items) == {items[i].provider : i \in 1..Len(items)}
ImageNamesOf(items) == {items[i].name : i \in 1..Len(items)}
SomeImageSupports(items, m) == \E p \in ImageRegistered(items) : image_supports_model(p, m)

\* C9: when the named image provider is not registered and some registered
\* provider supports the model, a registered provider supporting the model is
\* returned; the lookup fails with provider-not-found only when no registered
\* provider supports the model.
C9_ImageFallback ==
    imageResult.called =>
        LET q == imageResult.request
            r == imageResult.result
        IN  /\ (q.provider \notin ImageNamesOf(imageProviders)
                    /\ SomeImageSupports(imageProviders, q.model)) =>
                  /\ ~r.raised
                  /\ r.value \in ImageRegistered(imageProviders)
                  /\ image_supports_model(r.value, q.model)
            /\ (r.raised /\ r.message = NotFoundMessage(q.provider)) =>
                  ~SomeImageSupports(imageProviders, q.model)

\* The named provider was absent, the first registered provider did not support
\* the model and the second, which does, was returned.
C9_Witness ==
    /\ imageResult.called
    /\ imageResult.request = [provider |-> "ghost", model |-> "sd-xl"]
    /\ Len(imageProviders) = 2
    /\ imageProviders[1].provider.cls = "OpenAIImageProvider"
    /\ ~imageResult.result.raised
    /\ imageResult.result.value = imageProviders[2].provider

\* C34: when the provider named in an image request is registered and its
\* supports_model(request.model) is false, the lookup fails with
\* model-not-supported, whether or not another registered provider supports
\* the model: the scan of the registry is made only for an absent name.
C34_NoScanWhenRegistered ==
    imageResult.called =>
        LET q == imageResult.request
            r == imageResult.result
        IN  \A i \in 1..Len(imageProviders) :
                (imageProviders[i].name = q.provider
                    /\ ~image_supports_model(imageProviders[i].provider, q.model)) =>
                        /\ r.raised
                        /\ r.exc = "ImageRouterError"
                        /\ r.message = ImageNotSupportedMessage(q.provider, q.model)

\* The named provider was registered and did not support the model, the other
\* registered provider did, and the lookup failed.
C34_Witness ==
    /\ imageResult.called
    /\ imageResult.request = [provider |-> "openai", model |-> "sd-xl"]
    /\ Len(imageProviders) = 2
    /\ \E i, j \in 1..2 :
          /\ imageProviders[i].name = "openai"
          /\ ~image_supports_model(imageProviders[i].provider, "sd-xl")
          /\ image_supports_model(imageProviders[j].provider, "sd-xl")
    /\ imageResult.result.raised

(***************************************************************************)
(* GenerateResponseUseCase.execute, one step per call it awaits.           *)
(***************************************************************************)
\* Mutant: execute without its availability test.
NotAvailableNever(available) == FALSE

\* `if not await provider.is_available()`: whether execute raises.
NotAvailable(available) == ~available

UnavailableMessage(name) == "Provider '" \o name \o "' is not available"

InitExecute ==
    /\ providers \in {[n \in S |-> StartupProviders[n]] : S \in SUBSET DOMAIN StartupProviders}
    /\ routeResult = NoRoute
    /\ ExecuteIdle
    /\ DispatchIdle /\ ImageIdle
    /\ StreamIdle /\ GenerateIdle /\ HealthIdle /\ SkillIdle /\ LaterIdle

\* The router's registry may change while a call is in flight.
ExRegisterProvider(name, p) ==
    /\ providers' = [n \in DOMAIN providers \cup {name} |-> IF n = name THEN p ELSE providers[n]]
    /\ UNCHANGED <<routeResult, dvars, ivars, evars, xvars>>

ExUnregisterProvider(name) ==
    /\ providers' = [n \in DOMAIN providers \ {name} |-> providers[n]]
    /\ UNCHANGED <<routeResult, dvars, ivars, evars, xvars>>

\* execute(request) is called.
ExecuteCall(request) ==
    /\ exPc \in {"idle", "done"}
    /\ exPc' = "route"
    /\ exReq' = request
    /\ exProvider' = NoProvider
    /\ exTrace' = <<>>
    /\ exResult' = NoResult
    /\ UNCHANGED <<dvars, rvars, ivars, xvars, yvars>>

\* provider = self._model_router.get_provider(request)
ExecuteRoute ==
    /\ exPc = "route"
    /\ LET r == get_provider(providers, exReq)
       IN  /\ exTrace' = Append(exTrace, [op |-> "get_provider", ret |-> r])
           /\ exProvider' = IF r.raised THEN NoProvider ELSE r.value
           /\ exResult' = IF r.raised THEN r ELSE exResult
           /\ exPc' = IF r.raised THEN "done" ELSE "available"
    /\ UNCHANGED <<exReq, dvars, rvars, ivars, xvars>>

\* if not await provider.is_available(): raise RuntimeError(...)
ExecuteIsAvailable(available) ==
    /\ exPc = "available"
    /\ available \in is_available(exProvider)
    /\ exTrace' = Append(exTrace, [op |-> "is_available", ret |-> Return(available)])
    /\ exResult' = IF NotAvailable(available)
                   THEN Raise("RuntimeError", UnavailableMessage(exReq.provider))
                   ELSE exResult
    /\ exPc' = IF NotAvailable(available) THEN "done" ELSE "generate"
    /\ UNCHANGED <<exReq, exProvider, dvars, rvars, ivars, xvars>>

\* response = await provider.generate(request); return response
ExecuteGenerate(g) ==
    /\ exPc = "generate"
    /\ g \in generate(exProvider, exReq)
    /\ exTrace' = Append(exTrace, [op |-> "generate", ret |-> g])
    /\ exResult' = g
    /\ exPc' = "done"
    /\ UNCHANGED <<exReq, exProvider, dvars, rvars, ivars, xvars>>

GenerateOutcomes == UNION {generate(p, q) : p \in Instances, q \in Requests}

NextExecute ==
    \/ \E name \in ProviderNames, p \in Instances : ExRegisterProvider(name, p)
    \/ \E name \in ProviderNames : ExUnregisterProvider(name)
    \/ \E request \in Requests : ExecuteCall(request)
    \/ ExecuteRoute
    \/ \E available \in BOOLEAN : ExecuteIsAvailable(available)
    \/ \E g \in GenerateOutcomes : ExecuteGenerate(g)

SpecExecute == InitExecute /\ [][NextExecute]_vars

Ops(trace) == [i \in 1..Len(trace) |-> trace[i].op]

\* C10: execute calls get_provider, then is_available, then generate, in this
\* order and each at most once; generate is called only after routing succeeded
\* and is_available returned true in this call; when routing failed execute
\* raises the routing fault, when is_available returned false it raises
\* provider-unavailable, without calling generate; otherwise its outcome is the
\* outcome of the provider's generate.
C10_ExecuteOrder ==
    /\ \E k \in 0..3 : Ops(exTrace) = SubSeq(<<"get_provider", "is_available", "generate">>, 1, k)
    /\ Len(exTrace) >= 2 => ~exTrace[1].ret.raised
    /\ Len(exTrace) = 3 => exTrace[2].ret.value = TRUE
    /\ exPc = "done" =>
          /\ Len(exTrace) >= 1
          /\ Len(exTrace) = 1 =>
                exTrace[1].ret.raised /\ exResult = exTrace[1].ret
          /\ Len(exTrace) = 2 =>
                /\ exTrace[2].ret.value = FALSE
                /\ exResult = Raise("RuntimeError", UnavailableMessage(exReq.provider))
          /\ Len(exTrace) = 3 => exResult = exTrace[3].ret

\* A call ended provider-unavailable after routing to a provider whose probe
\* returned false.
C10_Witness ==
    /\ exPc = "done"
    /\ Len(exTrace) = 2
    /\ exTrace[2].op = "is_available" /\ exTrace[2].ret.value = FALSE
    /\ exResult.raised /\ exResult.exc = "RuntimeError"

(***************************************************************************)
(* The gRPC servicer (infrastructure/grpc_server/ai_service_server.py).    *)
(* Temperature and top-p are counted in tenths: 7 stands for 0.7.          *)
(***************************************************************************)
\* Python's isinstance(e, cls) for the exception classes that occur:
\* json.JSONDecodeError derives from ValueError.
IsInstance(exc, cls) ==
    \/ exc = cls
    \/ cls = "Exception"
    \/ cls = "ValueError" /\ exc = "JSONDecodeError"

\* The fields of a GenerateRequest message that _to_domain_request reads;
\* an unset numeric field of the message reads as 0.
Prompts == {"", "Hello"}
MaxTokens == {0, 100}
Temperatures == {-10, 0, 7, 20, 25}
TopPs == {-5, 0, 9, 15}
WireRequests ==
    [provider : ProviderNames, model : Models, prompt : Prompts,
     max_tokens : MaxTokens, temperature : Temperatures, top_p : TopPs]

\* A validation whose ranges exclude their upper bounds.
AIRequestOpenRanges(prompt, model, provider, max_tokens, temperature, top_p) ==
    IF prompt = "" THEN Raise("ValueError", "Prompt cannot be empty")
    ELSE IF max_tokens <= 0 THEN Raise("ValueError", "Max tokens must be positive")
    ELSE IF ~(0 <= temperature /\ temperature < 20)
    THEN Raise("ValueError", "Temperature must be between 0.0 and 2.0")
    ELSE IF ~(0 <= top_p /\ top_p < 10)
    THEN Raise("ValueError", "Top-p must be between 0.0 and 1.0")
    ELSE Return([provider |-> provider, model |-> model, prompt |-> prompt,
                 max_tokens |-> max_tokens, temperature |-> temperature, top_p |-> top_p])

\* AIRequest(...): the dataclass and its __post_init__ validation.
AIRequest(prompt, model, provider, max_tokens, temperature, top_p) ==
    IF prompt = "" THEN Raise("ValueError", "Prompt cannot be empty")
    ELSE IF max_tokens <= 0 THEN Raise("ValueError", "Max tokens must be positive")
    ELSE IF ~(0 <= temperature /\ temperature <= 20)
    THEN Raise("ValueError", "Temperature must be between 0.0 and 2.0")
    ELSE IF ~(0 <= top_p /\ top_p <= 10)
    THEN Raise("ValueError", "Top-p must be between 0.0 and 1.0")
    ELSE Return([provider |-> provider, model |-> model, prompt |-> prompt,
                 max_tokens |-> max_tokens, temperature |-> temperature, top_p |-> top_p])

\* AIServiceServicer._to_domain_request
to_domain_request(grpc_request) ==
    AIRequest(grpc_request.prompt, grpc_request.model, grpc_request.provider,
              IF grpc_request.max_tokens > 0 THEN grpc_request.max_tokens ELSE 4096,
              IF grpc_request.temperature > 0 THEN grpc_request.temperature ELSE 7,
              IF grpc_request.top_p > 0 THEN grpc_request.top_p ELSE 10)

\* context.abort(code, details): the call ends with this status.
Abort(code, details) == [code |-> code, message |-> details]
OkStatus == [code |-> "OK", message |-> ""]

\* The except clauses of Generate and of GenerateStream, in their order.
StatusOf(fault) ==
    IF IsInstance(fault.exc, "ValueError") THEN Abort("INVALID_ARGUMENT", fault.message)
    ELSE IF IsInstance(fault.exc, "RuntimeError") THEN Abort("UNAVAILABLE", fault.message)
    ELSE Abort("INTERNAL", "Internal server error")

\* The registries the servicer's router is started with.
ServingProviders ==
    [n \in ProviderNames |->
        IF n = "antigravity" THEN Instance("OpenAIProvider", "o1")
        ELSE IF n = "anthropic" THEN Instance("AnthropicProvider", "a1")
        ELSE Instance("GeminiProvider", "g1")]
ServingRegistries == {[n \in S |-> ServingProviders[n]] : S \in SUBSET ProviderNames}

(***************************************************************************)
(* GenerateStream over GenerateResponseUseCase.execute_stream over the     *)
(* provider's generate_stream: three nested asynchronous generators, each  *)
(* resumed by the one above it.                                            *)
(***************************************************************************)
\* Fragments a provider's sequence produces before the model cuts it off.
MaxFragments == 2

\* The wire requests given to GenerateStream: the numeric fields other than
\* the temperature are left unset.
StreamRequests == {q \in WireRequests : q.max_tokens = 0 /\ q.top_p = 0}

\* The fragments a generate_stream can yield: OpenAIProvider and GeminiProvider
\* skip empty content, AnthropicProvider passes every text delta on.
Fragments(p) ==
    CASE p.cls = "OpenAIProvider" -> {"a", "b"}
      [] p.cls = "AnthropicProvider" -> {"", "a", "b"}
      [] p.cls = "GeminiProvider" -> {"a", "b"}

\* The faults the body of a generate_stream can raise.
StreamFaults(p) ==
    CASE p.cls = "OpenAIProvider" ->
            {Raise("JSONDecodeError", "Expecting value: line 1 column 1 (char 0)"),
             Raise("KeyError", "'choices'"), Raise("ConnectError", "backend fault")}
      [] p.cls = "AnthropicProvider" -> {Raise("APIError", "backend fault")}
      [] p.cls = "GeminiProvider" ->
            {Raise("ValueError", "response blocked"), Raise("GoogleAPIError", "backend fault")}

\* One resumption of the provider's generate_stream: it yields a fragment,
\* is exhausted, or raises.
Yield(f) == [kind |-> "yield", value |-> f, fault |-> NoResult]
StopIteration == [kind |-> "stop", value |-> "", fault |-> NoResult]
Raises(fault) == [kind |-> "raise", value |-> "", fault |-> fault]
generate_stream(p, produced) ==
    {Yield(f) : f \in IF Len(produced) < MaxFragments THEN Fragments(p) ELSE {}}
        \cup {StopIteration}
        \cup {Raises(e) : e \in StreamFaults(p)}
StreamOutcomes == UNION {generate_stream(p, <<>>) : p \in Instances}

\* Mutant: execute_stream withholding empty fragments.
YieldsNonEmpty(yielded, chunk) == IF chunk = "" THEN yielded ELSE Append(yielded, chunk)

\* `async for chunk in provider.generate_stream(request): yield chunk`
Yields(yielded, chunk) == Append(yielded, chunk)

\* GenerateStreamChunk(content, is_final)
Chunk(content, is_final) == [content |-> content, is_final |-> is_final]

\* Mutant: the closing chunk without its final marker.
FinalChunkUnmarked == Chunk("", FALSE)

\* The chunk sent after the loop.
FinalChunk == Chunk("", TRUE)

Ended(fault) == [ended |-> TRUE, fault |-> fault]

\* Mutant: the closing chunk sent however the loop ended.
EndOfStreamAlways(wire, end) == Append(wire, FinalChunk)

\* How the wire stands when the loop over execute_stream is left: the closing
\* chunk is sent only when the loop ended without a fault.
EndOfStream(wire, end) == IF end.fault.raised THEN wire ELSE Append(wire, FinalChunk)

InitStream ==
    /\ providers \in ServingRegistries
    /\ routeResult = NoRoute
    /\ StreamIdle
    /\ DispatchIdle /\ ImageIdle /\ ExecuteIdle
    /\ GenerateIdle /\ HealthIdle /\ SkillIdle /\ LaterIdle

ovars == <<dvars, rvars, ivars, evars, gvars, hvars, kvars, yvars>>

\* GenerateStream(request, context) is called.
StreamCall(request) ==
    /\ stPc \in {"idle", "done"}
    /\ stPc' = "convert"
    /\ stReq' = request
    /\ stDomain' = NoRequest
    /\ stProvider' = NoProvider
    /\ stProduced' = <<>>
    /\ stEnd' = NotEnded
    /\ stYielded' = <<>>
    /\ stFault' = NoFault
    /\ stWire' = <<>>
    /\ stStatus' = NoStatus
    /\ UNCHANGED ovars

\* ai_request = self._to_domain_request(request)
StreamConvert ==
    /\ stPc = "convert"
    /\ LET r == to_domain_request(stReq)
       IN  IF r.raised
           THEN /\ stStatus' = StatusOf(r)
                /\ stWire' = EndOfStream(stWire, Ended(r))
                /\ stPc' = "done"
                /\ UNCHANGED stDomain
           ELSE /\ stDomain' = r.value
                /\ stPc' = "route"
                /\ UNCHANGED <<stStatus, stWire>>
    /\ UNCHANGED <<stReq, stProvider, stProduced, stEnd, stYielded, stFault>>
    /\ UNCHANGED ovars

\* execute_stream: provider = self._model_router.get_provider(request)
StreamRoute ==
    /\ stPc = "route"
    /\ LET r == get_provider(providers, stDomain)
       IN  IF r.raised
           THEN /\ stFault' = [at |-> Len(stYielded), fault |-> r]
                /\ stStatus' = StatusOf(r)
                /\ stWire' = EndOfStream(stWire, Ended(r))
                /\ stPc' = "done"
                /\ UNCHANGED stProvider
           ELSE /\ stProvider' = r.value
                /\ stPc' = "available"
                /\ UNCHANGED <<stFault, stStatus, stWire>>
    /\ UNCHANGED <<stReq, stDomain, stProduced, stEnd, stYielded>>
    /\ UNCHANGED ovars

\* execute_stream: if not await provider.is_available(): raise RuntimeError(...)
StreamIsAvailable(available) ==
    /\ stPc = "available"
    /\ available \in is_available(stProvider)
    /\ IF NotAvailable(available)
       THEN LET r == Raise("RuntimeError", UnavailableMessage(stDomain.provider))
            IN  /\ stFault' = [at |-> Len(stYielded), fault |-> r]
                /\ stStatus' = StatusOf(r)
                /\ stWire' = EndOfStream(stWire, Ended(r))
                /\ stPc' = "done"
       ELSE /\ stPc' = "pull"
            /\ UNCHANGED <<stFault, stStatus, stWire>>
    /\ UNCHANGED <<stReq, stDomain, stProvider, stProduced, stEnd, stYielded>>
    /\ UNCHANGED ovars

\* execute_stream resumes the provider's sequence.  A fragment is held by
\* execute_stream until it yields it; exhaustion ends execute_stream and so
\* the servicer's loop; a fault passes through execute_stream into the
\* servicer's except clauses.
StreamPull(o) ==
    /\ stPc = "pull"
    /\ o \in generate_stream(stProvider, stProduced)
    /\ CASE o.kind = "yield" ->
                /\ stProduced' = Append(stProduced, o.value)
                /\ stPc' = "yield"
                /\ UNCHANGED <<stEnd, stFault, stStatus, stWire>>
         [] o.kind = "stop" ->
                /\ stEnd' = Ended(NoResult)
                /\ stPc' = "final"
                /\ UNCHANGED <<stProduced, stFault, stStatus, stWire>>
         [] o.kind = "raise" ->
                /\ stEnd' = Ended(o.fault)
                /\ stFault' = [at |-> Len(stYielded), fault |-> o.fault]
                /\ stStatus' = StatusOf(o.fault)
                /\ stWire' = EndOfStream(stWire, Ended(o.fault))
                /\ stPc' = "done"
                /\ UNCHANGED stProduced
    /\ UNCHANGED <<stReq, stDomain, stProvider, stYielded>>
    /\ UNCHANGED ovars

\* Mutant: execute_stream going back to the provider for the next fragment
\* before the servicer has taken the one it holds.
AfterYieldPrefetch == "pull"

\* Where control goes when execute_stream yields: execute_stream is suspended
\* at its yield and the servicer's loop body runs with the fragment.
AfterYield == "emit"

\* execute_stream: yield chunk
StreamYield ==
    /\ stPc = "yield"
    /\ stYielded' = Yields(stYielded, stProduced[Len(stProduced)])
    /\ stPc' = AfterYield
    /\ UNCHANGED <<stReq, stDomain, stProvider, stProduced, stEnd, stFault, stWire, stStatus>>
    /\ UNCHANGED ovars

\* GenerateStream: yield GenerateStreamChunk(content=chunk, is_final=False),
\* for the fragment execute_stream yielded last, if it yielded one; the
\* handler is suspended at this yield while the chunk is written.
StreamEmit ==
    /\ stPc = "emit"
    /\ stWire' = IF Len(stYielded) > Len(stWire)
                 THEN Append(stWire, Chunk(stYielded[Len(stYielded)], FALSE))
                 ELSE stWire
    /\ stPc' = "sent"
    /\ UNCHANGED <<stReq, stDomain, stProvider, stProduced, stEnd, stYielded, stFault, stStatus>>
    /\ UNCHANGED ovars

\* The framework resumes GenerateStream, whose loop asks execute_stream for
\* the next fragment, which asks the provider's sequence.
StreamResume ==
    /\ stPc = "sent"
    /\ stPc' = "pull"
    /\ UNCHANGED <<stReq, stDomain, stProvider, stProduced, stEnd, stYielded, stFault, stWire, stStatus>>
    /\ UNCHANGED ovars

\* GenerateStream after its loop: the closing chunk is yielded, and the
\* handler is suspended at this yield.
StreamFinal ==
    /\ stPc = "final"
    /\ stWire' = EndOfStream(stWire, stEnd)
    /\ stPc' = "return"
    /\ UNCHANGED <<stReq, stDomain, stProvider, stProduced, stEnd, stYielded, stFault, stStatus>>
    /\ UNCHANGED ovars

\* The framework resumes GenerateStream after the closing chunk: the handler
\* returns and the call ends.
StreamReturn ==
    /\ stPc = "return"
    /\ stStatus' = OkStatus
    /\ stPc' = "done"
    /\ UNCHANGED <<stReq, stDomain, stProvider, stProduced, stEnd, stYielded, stFault, stWire>>
    /\ UNCHANGED ovars

NextStream ==
    \/ \E request \in StreamRequests : StreamCall(request)
    \/ StreamConvert
    \/ StreamRoute
    \/ \E available \in BOOLEAN : StreamIsAvailable(available)
    \/ \E o \in StreamOutcomes : StreamPull(o)
    \/ StreamYield
    \/ StreamEmit
    \/ StreamResume
    \/ StreamFinal
    \/ StreamReturn

SpecStream == InitStream /\ [][NextStream]_vars

IsPrefix(a, b) == Len(a) <= Len(b) /\ \A i \in 1..Len(a) : a[i] = b[i]
\* The not-final chunks that carry the given fragments, in order.
NotFinalChunks(frags) == [i \in 1..Len(frags) |-> [content |-> frags[i], is_final |-> FALSE]]
ErrorCodes == {"INVALID_ARGUMENT", "UNAVAILABLE", "INTERNAL"}

\* C11: once the provider is resolved and available, what execute_stream has
\* yielded is at every moment the provider's sequence so far, fragment by
\* fragment and in order, with at most the one fragment it is about to yield
\* still in hand; when the provider's sequence is over execute_stream has
\* yielded all of it, and a fault of the provider's sequence leaves
\* execute_stream as that same fault after that same number of fragments.
C11_StreamPassThrough ==
    /\ IsPrefix(stYielded, stProduced)
    /\ Len(stProduced) - Len(stYielded) = (IF stPc = "yield" THEN 1 ELSE 0)
    /\ stEnd.ended => stYielded = stProduced
    /\ stEnd.fault.raised => stFault = [at |-> Len(stProduced), fault |-> stEnd.fault]
    /\ (stEnd.ended /\ ~stEnd.fault.raised) => stFault = NoFault

C11_Witness ==
    /\ stEnd.fault.raised
    /\ stProduced = <<"", "a">>
    /\ stYielded = <<"", "a">>
    /\ stFault.at = 2

\* C12: a GenerateStream call that ends without an error has sent one
\* not-final chunk per fragment of the provider's sequence, in order, then
\* one chunk with empty content and the final marker, and nothing else; a
\* final chunk is never followed by another chunk.
C12_StreamTermination ==
    /\ stStatus.code = "OK" =>
          /\ stPc = "done"
          /\ stWire = NotFinalChunks(stProduced) \o <<[content |-> "", is_final |-> TRUE]>>
    /\ \A i \in 1..Len(stWire) :
          stWire[i].is_final =>
              /\ i = Len(stWire)
              /\ stPc \in {"return", "done"}
              /\ stPc = "done" => stStatus.code = "OK"

C12_Witness ==
    /\ stStatus.code = "OK"
    /\ Len(stProduced) = MaxFragments
    /\ stProduced[1] = ""
    /\ Len(stWire) = MaxFragments + 1

\* The same for a provider sequence without any fragment.
C12_WitnessEmpty == stStatus.code = "OK" /\ stProduced = <<>> /\ Len(stWire) = 1

\* C13: when the provider's sequence raised after k fragments, GenerateStream
\* has sent exactly the k not-final chunks of those fragments and no final
\* chunk, and the call has ended with an error status.
C13_StreamFault ==
    stEnd.fault.raised =>
        /\ stPc = "done"
        /\ stWire = NotFinalChunks(stProduced)
        /\ \A i \in 1..Len(stWire) : ~stWire[i].is_final
        /\ stStatus.code \in ErrorCodes

C13_Witness ==
    /\ stEnd.fault.raised
    /\ Len(stProduced) = MaxFragments
    /\ Len(stWire) = MaxFragments
    /\ stStatus.code = "INTERNAL"

(***************************************************************************)
(* Generate: the request is converted, GenerateResponseUseCase.execute     *)
(* runs (ExecuteRoute, ExecuteIsAvailable, ExecuteGenerate above), and its *)
(* outcome is mapped to a response or to a status.                         *)
(***************************************************************************)
InitGenerate ==
    /\ providers \in ServingRegistries
    /\ routeResult = NoRoute
    /\ GenerateIdle
    /\ DispatchIdle /\ ImageIdle /\ ExecuteIdle
    /\ StreamIdle /\ HealthIdle /\ SkillIdle /\ LaterIdle

\* GenerateResponse(content=ai_response.content, model_used=..., ...)
WireResponse(ai_response) ==
    [sent |-> TRUE, content |-> ai_response.content, model_used |-> ai_response.model_used]

\* Generate(request, context) is called.
GenerateCall(request) ==
    /\ gPc \in {"idle", "done"}
    /\ gPc' = "convert"
    /\ gReq' = request
    /\ gResponse' = NoWireResponse
    /\ gStatus' = NoStatus
    /\ exPc' = "idle"
    /\ exReq' = NoRequest
    /\ exProvider' = NoProvider
    /\ exTrace' = <<>>
    /\ exResult' = NoResult
    /\ UNCHANGED <<dvars, rvars, ivars, svars, hvars, kvars>>
    /\ UNCHANGED yvars

\* ai_request = self._to_domain_request(request), then execute is entered.
GenerateConvert ==
    /\ gPc = "convert"
    /\ LET r == to_domain_request(gReq)
       IN  IF r.raised
           THEN /\ gStatus' = StatusOf(r)
                /\ gPc' = "done"
                /\ UNCHANGED <<exPc, exReq>>
           ELSE /\ exReq' = r.value
                /\ exPc' = "route"
                /\ gPc' = "execute"
                /\ UNCHANGED gStatus
    /\ UNCHANGED <<gReq, gResponse, exProvider, exTrace, exResult>>
    /\ UNCHANGED <<dvars, rvars, ivars, svars, hvars, kvars, yvars>>

\* execute has returned or raised: the response is built and returned, or
\* an except clause aborts the call.
GenerateRespond ==
    /\ gPc = "execute"
    /\ exPc = "done"
    /\ IF exResult.raised
       THEN /\ gStatus' = StatusOf(exResult)
            /\ UNCHANGED gResponse
       ELSE /\ gResponse' = WireResponse(exResult.value)
            /\ gStatus' = OkStatus
    /\ gPc' = "done"
    /\ UNCHANGED gReq
    /\ UNCHANGED <<dvars, rvars, ivars, evars, svars, hvars, kvars, yvars>>

NextGenerate ==
    \/ \E request \in WireRequests : GenerateCall(request)
    \/ GenerateConvert
    \/ ExecuteRoute
    \/ \E available \in BOOLEAN : ExecuteIsAvailable(available)
    \/ \E g \in GenerateOutcomes : ExecuteGenerate(g)
    \/ GenerateRespond

SpecGenerate == InitGenerate /\ [][NextGenerate]_vars

\* A Generate call has ended with a fault of this origin.
Faulted == gPc = "done" /\ gStatus.code # "OK"
ValidationFault == Faulted /\ exTrace = <<>>
RoutingFault == Faulted /\ Len(exTrace) = 1
UnavailableFault == Faulted /\ Len(exTrace) = 2
BackendFault == Faulted /\ Len(exTrace) = 3

\* C14: a Generate call that ended with a fault has status INVALID_ARGUMENT
\* when the fault was raised by the validation of the request, UNAVAILABLE
\* when the provider was found unavailable, and otherwise (routing fault,
\* fault of the provider's generate) INTERNAL with the fixed message.
C14_FaultMapping ==
    /\ ValidationFault => gStatus.code = "INVALID_ARGUMENT"
    /\ UnavailableFault => gStatus.code = "UNAVAILABLE"
    /\ (RoutingFault \/ BackendFault) => gStatus = [code |-> "INTERNAL", message |-> "Internal server error"]

\* The parts of C14 the code keeps: validation, routing and availability
\* faults are mapped as stated.
C14_Holds ==
    /\ ValidationFault => gStatus.code = "INVALID_ARGUMENT"
    /\ UnavailableFault => gStatus.code = "UNAVAILABLE"
    /\ RoutingFault => gStatus = [code |-> "INTERNAL", message |-> "Internal server error"]

\* A fault of the provider's generate reported as INVALID_ARGUMENT.
C14_Witness ==
    /\ BackendFault
    /\ exTrace[3].ret.exc = "ValueError"
    /\ gStatus = [code |-> "INVALID_ARGUMENT", message |-> "Content cannot be empty"]

OutOfRange(q) ==
    \/ ~(0 <= q.temperature /\ q.temperature <= 20)
    \/ ~(0 <= q.top_p /\ q.top_p <= 10)

\* C20: for a Generate request whose temperature is outside [0.0, 2.0] or
\* whose top-p is outside [0.0, 1.0], neither the router nor a provider is
\* ever called, and the call ends with the validation fault's status.
C20_OutOfRangeRejected ==
    OutOfRange(gReq) =>
        /\ exTrace = <<>>
        /\ gPc \in {"idle", "convert", "done"}
        /\ gPc = "done" => gStatus.code = "INVALID_ARGUMENT"

\* The part of C20 the code keeps: values above the range are rejected.
C20_Holds ==
    (gReq.temperature > 20 \/ gReq.top_p > 10) =>
        /\ exTrace = <<>>
        /\ gPc = "done" => gStatus.code = "INVALID_ARGUMENT"

\* A negative temperature answered with a generated response.
C20_Witness ==
    /\ gReq.temperature < 0
    /\ gPc = "done"
    /\ gStatus.code = "OK"
    /\ exReq.temperature = 7
    /\ Len(exTrace) = 3

(***************************************************************************)
(* HealthCheck                                                             *)
(***************************************************************************)
\* The attributes AIServiceServicer.__init__ sets on the servicer.
ServicerAttributes ==
    {"_generate_use_case", "_generate_image_use_case", "_execute_skill_use_case"}
\* The attributes of GenerateResponseUseCase.
UseCaseAttributes == {"_model_router"}

hasattr(attributes, name) == name \in attributes

\* The outcomes of one `await provider.is_available()`.
Probe(p) == {Return(a) : a \in is_available(p)}
\* For each registered provider, an outcome its probe can have.
Probes(reg) == {f \in [DOMAIN reg -> {Return(TRUE), Return(FALSE)}] : \A n \in DOMAIN reg : f[n] \in Probe(reg[n])}

\* HealthCheck looks the router up as self._generate_service._router.
RouterReached ==
    /\ hasattr(ServicerAttributes, "_generate_service")
    /\ hasattr(UseCaseAttributes, "_router")

\* The providers_status map HealthCheck builds.
providers_status(reg, probes) ==
    IF RouterReached
    THEN [n \in DOMAIN reg |-> IF probes[n].raised THEN FALSE ELSE probes[n].value]
    ELSE [n \in {"unknown"} |-> TRUE]

\* The probes HealthCheck makes.
ProbesMade(reg, probes) ==
    IF RouterReached THEN {[name |-> n, ret |-> probes[n]] : n \in DOMAIN reg} ELSE {}

\* Mutant: not serving unless a provider was probed.
HealthStatusNeedsProbes(status) == IF "unknown" \in DOMAIN status THEN "NOT_SERVING" ELSE "SERVING"

\* status=HealthCheckResponse.SERVING
HealthStatus(status) == "SERVING"

InitHealth ==
    /\ providers \in ServingRegistries
    /\ routeResult = NoRoute
    /\ HealthIdle
    /\ DispatchIdle /\ ImageIdle /\ ExecuteIdle
    /\ StreamIdle /\ GenerateIdle /\ SkillIdle /\ LaterIdle

HealthCheck(probes) ==
    /\ probes \in Probes(providers)
    /\ hProbes' = [registered |-> DOMAIN providers, made |-> ProbesMade(providers, probes)]
    /\ LET status == providers_status(providers, probes)
       IN  hResponse' = [sent |-> TRUE, status |-> HealthStatus(status),
                         version |-> "0.1.0", providers_status |-> status]
    /\ UNCHANGED <<dvars, rvars, ivars, evars, svars, gvars, kvars, yvars>>

AllProbes == UNION {Probes(reg) : reg \in {[n \in S |-> f[n]] : S \in SUBSET ProviderNames, f \in [ProviderNames -> Instances]}}

NextHealth ==
    \/ \E name \in ProviderNames, p \in Instances : ExRegisterProvider(name, p)
    \/ \E name \in ProviderNames : ExUnregisterProvider(name)
    \/ \E probes \in AllProbes : HealthCheck(probes)

SpecHealth == InitHealth /\ [][NextHealth]_vars

\* C15: the map HealthCheck returns has exactly one entry per provider that
\* was registered in the router when it ran, and each entry is the outcome
\* of that provider's is_available(), false when the probe raised.
C15_HealthPerProvider ==
    hResponse.sent =>
        /\ DOMAIN hResponse.providers_status = hProbes.registered
        /\ \A n \in hProbes.registered :
              \E probe \in hProbes.made :
                  /\ probe.name = n
                  /\ hResponse.providers_status[n] =
                        (IF probe.ret.raised THEN FALSE ELSE probe.ret.value)

\* What HealthCheck does return: the single entry "unknown", without a probe.
C15_Holds ==
    hResponse.sent =>
        /\ hResponse.providers_status = [n \in {"unknown"} |-> TRUE]
        /\ hProbes.made = {}

\* HealthCheck ran with a gemini provider registered.
C15_Witness ==
    /\ hResponse.sent
    /\ "gemini" \in hProbes.registered
    /\ "gemini" \notin DOMAIN hResponse.providers_status

\* C16: every HealthCheck call returns a response, and its overall status
\* is SERVING.
C16_AlwaysServing == hResponse.sent => hResponse.status = "SERVING"

C16_Witness ==
    /\ hResponse.sent
    /\ hResponse.status = "SERVING"
    /\ hProbes.registered = ProviderNames
    /\ providers["gemini"].cls = "GeminiProvider"

(***************************************************************************)
(* Skills: InMemorySkillRegistry, ExecuteSkillUseCase, the ExecuteSkill    *)
(* call of the servicer and ToolHandler.handle_execute of the sideload.    *)
(***************************************************************************)
\* A skill object: its class and its `name` property.
Skill(cls, name) == [cls |-> cls, name |-> name]
\* Python None where a skill is expected.
NoSkill == Skill("None", "")
TimeSkill == Skill("TimeSkill", "current_time")
EchoSkill == Skill("EchoSkill", "echo")
CalculatorSkill == Skill("CalculatorSkill", "calculator")
\* Another implementation of the Skill interface, registered later.
CustomSkill == Skill("CustomSkill", "custom")

\* create_skill_registry
BasicSkills ==
    [n \in {"current_time", "echo", "calculator"} |->
        IF n = "current_time" THEN TimeSkill
        ELSE IF n = "echo" THEN EchoSkill ELSE CalculatorSkill]

SkillNames == {"current_time", "echo", "calculator", "custom", "nope", ""}
Inputs == {"2+2", "1/0", "hi"}

\* InMemorySkillRegistry.get_skill: dict.get
get_skill(reg, skill_id) == IF skill_id \in DOMAIN reg THEN reg[skill_id] ELSE NoSkill

\* Skill.execute(input_text, config), per class: the outcomes a call can have.
skill_execute(skill, input_text) ==
    CASE skill.cls = "TimeSkill" -> {Return("2026-10-30 12:00:00")}
      [] skill.cls = "EchoSkill" -> {Return("Echo: " \o input_text)}
      [] skill.cls = "CalculatorSkill" ->
            {Return(CASE input_text = "2+2" -> "4"
                      [] input_text = "1/0" -> "Error: division by zero"
                      [] input_text = "" -> "Error: invalid syntax (<string>, line 0)"
                      [] OTHER -> "Error: Invalid characters in expression")}
      [] skill.cls = "CustomSkill" ->
            {Return("done"), Raise("ValueError", "bad input"), Raise("OSError", "disk full")}
SkillBodyOutcomes ==
    UNION {skill_execute(k, i) : k \in {TimeSkill, EchoSkill, CalculatorSkill, CustomSkill}, i \in Inputs \cup {""}}

\* SkillResponse(output, success, error_message)
SkillResponse(output, success, error_message) ==
    [output |-> output, success |-> success, error_message |-> error_message]

\* Mutant: the use case raising for a skill id that is not registered.
SkillNotFoundRaises(skill_id) == Raise("ValueError", "Skill '" \o skill_id \o "' not found")

\* ExecuteSkillUseCase.execute when the registry has no such skill.
SkillNotFound(skill_id) ==
    Return(SkillResponse("", FALSE, JStr("Skill '" \o skill_id \o "' not found")))

\* Mutant: the use case letting the fault of the skill body through.
SkillFailedRaises(fault) == fault

\* ExecuteSkillUseCase.execute when the skill body raised.
SkillFailed(fault) ==
    Return(SkillResponse("", FALSE, JStr("Error executing skill: " \o fault.message)))

\* ExecuteSkillUseCase.execute; `body` is what the skill body does if it runs.
execute_skill(reg, skill_id, body) ==
    LET skill == get_skill(reg, skill_id)
    IN  IF skill = NoSkill THEN SkillNotFound(skill_id)
        ELSE IF body.raised THEN SkillFailed(body)
        ELSE Return(SkillResponse(body.value, TRUE, PyNone))

\* `x or ""`
OrEmpty(x) == IF x = PyNone THEN "" ELSE x.v

\* AIServiceServicer.ExecuteSkill, on a servicer with its use case configured.
ExecuteSkill(reg, skill_id, body) ==
    LET r == execute_skill(reg, skill_id, body)
    IN  IF ~r.raised
        THEN SkillOutcome("returned",
                          [output |-> r.value.output, success |-> r.value.success,
                           error_message |-> OrEmpty(r.value.error_message)],
                          NoResult, OkStatus)
        ELSE IF IsInstance(r.exc, "ValueError")
        THEN SkillOutcome("aborted", PyNone, r, Abort("INVALID_ARGUMENT", r.message))
        ELSE SkillOutcome("aborted", PyNone, r, Abort("INTERNAL", "Internal server error"))

\* The `arguments` of a tool/execute call: a dict with some of these keys.
ArgumentKeys == {"input", "text"}
Arguments == UNION {[K -> Inputs] : K \in SUBSET ArgumentKeys}
ArgGet(arguments, key, default) == IF key \in DOMAIN arguments THEN arguments[key] ELSE default
\* input_text = arguments.get("input", arguments.get("text", ""))
InputText(arguments) == ArgGet(arguments, "input", ArgGet(arguments, "text", ""))

\* Mutant: the not-found result without its error code.
ToolNotFoundPlain(name) ==
    [output |-> "Tool '" \o name \o "' not found", success |-> FALSE, error |-> "Tool '" \o name \o "' not found"]

\* ToolHandler.handle_execute when the registry has no such skill.
ToolNotFound(name) ==
    [output |-> "Tool '" \o name \o "' not found", success |-> FALSE, error |-> "tool_not_found"]

\* ToolHandler.handle_execute for params {"name": name, "arguments": {...}}.
tool_execute(reg, name, body) ==
    LET skill == get_skill(reg, name)
    IN  IF skill = NoSkill THEN SkillOutcome("returned", ToolNotFound(name), NoResult, NoStatus)
        ELSE IF body.raised
        THEN SkillOutcome("returned",
                          [output |-> "Error executing '" \o name \o "': " \o body.message,
                           success |-> FALSE, error |-> body.message],
                          NoResult, NoStatus)
        ELSE SkillOutcome("returned", [output |-> body.value, success |-> TRUE], NoResult, NoStatus)

\* The skill bodies a call runs.
Runs(reg, name) == IF get_skill(reg, name) = NoSkill THEN <<>> ELSE <<get_skill(reg, name)>>

InitSkill ==
    /\ skills = BasicSkills
    /\ skCall = NoSkillCall
    /\ skRuns = <<>>
    /\ skResult = NoSkillResult
    /\ DispatchIdle /\ RouterIdle /\ ImageIdle /\ ExecuteIdle
    /\ StreamIdle /\ GenerateIdle /\ HealthIdle /\ LaterIdle

\* InMemorySkillRegistry.register_skill
RegisterSkill(skill) ==
    /\ skills' = [n \in DOMAIN skills \cup {skill.name} |-> IF n = skill.name THEN skill ELSE skills[n]]
    /\ UNCHANGED <<skCall, skRuns, skResult>>
    /\ UNCHANGED <<dvars, rvars, ivars, evars, svars, gvars, hvars, yvars>>

\* ExecuteSkillUseCase.execute called by itself.
UseCaseExecuteSkill(skill_id, input, body) ==
    /\ get_skill(skills, skill_id) # NoSkill => body \in skill_execute(get_skill(skills, skill_id), input)
    /\ get_skill(skills, skill_id) = NoSkill => body = Return("done")
    /\ skCall' = [via |-> "usecase", name |-> skill_id, input |-> input,
                  registered |-> DOMAIN skills, body |-> body]
    /\ skRuns' = Runs(skills, skill_id)
    /\ LET r == execute_skill(skills, skill_id, body)
       IN  skResult' = IF r.raised THEN SkillOutcome("raised", PyNone, r, NoStatus)
                       ELSE SkillOutcome("returned", r.value, NoResult, NoStatus)
    /\ UNCHANGED skills
    /\ UNCHANGED <<dvars, rvars, ivars, evars, svars, gvars, hvars, yvars>>

\* The gRPC call ExecuteSkill(skill_id, input).
GrpcExecuteSkill(skill_id, input, body) ==
    /\ get_skill(skills, skill_id) # NoSkill => body \in skill_execute(get_skill(skills, skill_id), input)
    /\ get_skill(skills, skill_id) = NoSkill => body = Return("done")
    /\ skCall' = [via |-> "grpc", name |-> skill_id, input |-> input,
                  registered |-> DOMAIN skills, body |-> body]
    /\ skRuns' = Runs(skills, skill_id)
    /\ skResult' = ExecuteSkill(skills, skill_id, body)
    /\ UNCHANGED skills
    /\ UNCHANGED <<dvars, rvars, ivars, evars, svars, gvars, hvars, yvars>>

\* The JSON-RPC call tool/execute with params {"name": name, "arguments": arguments}.
ToolExecute(name, arguments, body) ==
    /\ get_skill(skills, name) # NoSkill => body \in skill_execute(get_skill(skills, name), InputText(arguments))
    /\ get_skill(skills, name) = NoSkill => body = Return("done")
    /\ skCall' = [via |-> "jsonrpc", name |-> name, input |-> InputText(arguments),
                  registered |-> DOMAIN skills, body |-> body]
    /\ skRuns' = Runs(skills, name)
    /\ skResult' = tool_execute(skills, name, body)
    /\ UNCHANGED skills
    /\ UNCHANGED <<dvars, rvars, ivars, evars, svars, gvars, hvars, yvars>>

NextSkill ==
    \/ RegisterSkill(CustomSkill)
    \/ \E skill_id \in SkillNames, input \in Inputs, body \in SkillBodyOutcomes :
          UseCaseExecuteSkill(skill_id, input, body)
    \/ \E skill_id \in SkillNames, input \in Inputs, body \in SkillBodyOutcomes :
          GrpcExecuteSkill(skill_id, input, body)
    \/ \E name \in SkillNames, arguments \in Arguments, body \in SkillBodyOutcomes :
          ToolExecute(name, arguments, body)

SpecSkill == InitSkill /\ [][NextSkill]_vars

\* The latest skill call named a skill that was not registered.
Unregistered == skCall.via # "" /\ skCall.name \notin skCall.registered

\* C17: ExecuteSkill for a skill id that is not in the registry ends the call
\* with the status INVALID_ARGUMENT; it returns no response message and does
\* not end with INTERNAL.
C17_NotFoundInvalidArgument ==
    (skCall.via = "grpc" /\ Unregistered) =>
        /\ skResult.outcome = "aborted"
        /\ skResult.status.code = "INVALID_ARGUMENT"

\* What the code does instead: ExecuteSkill for a skill id that is not in the
\* registry returns a response message with success false and the error
\* message "Skill '<id>' not found"; the call is not aborted, neither with
\* INVALID_ARGUMENT nor with INTERNAL.
C17_NotFoundIsResponse ==
    (skCall.via = "grpc" /\ Unregistered) =>
        /\ skResult.outcome = "returned"
        /\ skResult.status.code = "OK"
        /\ skResult.value = [output |-> "", success |-> FALSE,
                             error_message |-> "Skill '" \o skCall.name \o "' not found"]

\* An ExecuteSkill call for the unregistered id "nope" that returned a
\* response message.
C17_Witness ==
    /\ skCall.via = "grpc"
    /\ skCall.name = "nope"
    /\ skResult.outcome = "returned"
    /\ ~skResult.value.success

\* C18: a call of ExecuteSkill or of tool/execute with a name that is not
\* registered returns a result with success false and the not-found mark
\* (the error message "Skill '<name>' not found", the error "tool_not_found"),
\* raises nothing, and runs no skill body.
C18_NotFoundResult ==
    /\ (skCall.via = "grpc" /\ Unregistered) =>
          /\ skResult.outcome = "returned"
          /\ skResult.value.success = FALSE
          /\ skResult.value.error_message = "Skill '" \o skCall.name \o "' not found"
          /\ skRuns = <<>>
    /\ (skCall.via = "jsonrpc" /\ Unregistered) =>
          /\ skResult.outcome = "returned"
          /\ skResult.value.success = FALSE
          /\ skResult.value.error = "tool_not_found"
          /\ skRuns = <<>>

C18_Witness ==
    /\ skCall.via = "jsonrpc"
    /\ skCall.name = "custom"
    /\ "custom" \notin skCall.registered
    /\ skResult.value.error = "tool_not_found"

\* C19: ExecuteSkillUseCase.execute always returns a SkillResponse and never
\* raises: for a skill that is not registered, for a skill body that
\* returns (success true, its output), and for a skill body that raises
\* (success false, the error message carrying the fault's description).
C19_ExecutorTotal ==
    skCall.via = "usecase" =>
        /\ skResult.outcome = "returned"
        /\ Unregistered => ~skResult.value.success
        /\ (~Unregistered /\ skCall.body.raised) =>
              /\ ~skResult.value.success
              /\ skResult.value.output = ""
              /\ skResult.value.error_message =
                     [t |-> "str", v |-> "Error executing skill: " \o skCall.body.message]
        /\ (~Unregistered /\ ~skCall.body.raised) =>
              /\ skResult.value.success
              /\ skResult.value.output = skCall.body.value

C19_Witness ==
    /\ skCall.via = "usecase"
    /\ skCall.name = "custom"
    /\ skCall.body.raised
    /\ skCall.body.exc = "ValueError"
    /\ skResult.outcome = "returned"
    /\ ~skResult.value.success

(***************************************************************************)
(* SpecConstruct: AIRequest(...) called directly with the arguments a      *)
(* caller chooses; temperature and top_p in tenths, values on both sides   *)
(* of every bound of __post_init__.                                        *)
(***************************************************************************)
ConstructArgs ==
    [prompt : {"", "Hello"}, max_tokens : {-1, 0, 1, 8192},
     temperature : {-1, 0, 7, 20, 21}, top_p : {-1, 0, 10, 11}]

InitConstruct ==
    /\ built \in {[used |-> TRUE, done |-> FALSE, args |-> a, result |-> NoResult] :
                    a \in ConstructArgs}
    /\ DispatchIdle /\ RouterIdle /\ ImageIdle /\ ExecuteIdle
    /\ StreamIdle /\ GenerateIdle /\ HealthIdle /\ SkillIdle
    /\ SideCallIdle /\ CapsIdle /\ ConvIdle
    /\ ReleaseIdle /\ StdioIdle /\ ImgCallIdle /\ BackRefIdle
    /\ LastIdle

\* AIRequest(prompt=..., max_tokens=..., temperature=..., top_p=...), model and
\* provider left at the defaults of the dataclass.
Construct ==
    /\ built.used /\ ~built.done
    /\ built' = [built EXCEPT
            !.done = TRUE,
            !.result = AIRequest(built.args.prompt, Model("gemini-", "3-pro-low"),
                                 "antigravity", built.args.max_tokens,
                                 built.args.temperature, built.args.top_p)]
    /\ UNCHANGED <<dvars, rvars, ivars, evars, svars, gvars, hvars, kvars>>
    /\ UNCHANGED <<sideCall, caps, conv, stRelease, stdio, imgCall, backRef, zvars>>

NextConstruct == Construct

SpecConstruct == InitConstruct /\ [][NextConstruct]_vars

\* The condition the specification states for a construction to succeed.
ValidArgs(a) ==
    /\ a.prompt # ""
    /\ a.max_tokens > 0
    /\ 0 <= a.temperature /\ a.temperature <= 20
    /\ 0 <= a.top_p /\ a.top_p <= 10

\* C21: constructing an AIRequest succeeds if and only if the prompt is
\* non-empty, max_tokens > 0, 0.0 <= temperature <= 2.0 and 0.0 <= top_p <= 1.0,
\* both bounds inclusive; a successful construction holds the arguments as
\* given, and a failed one raises ValueError and yields no request object.
C21_ConstructionIff ==
    (built.used /\ built.done) =>
        /\ ~built.result.raised <=> ValidArgs(built.args)
        /\ built.result.raised =>
                /\ built.result.exc = "ValueError"
                /\ built.result.value = PyNone
        /\ ~built.result.raised =>
                /\ built.result.value.prompt = built.args.prompt
                /\ built.result.value.max_tokens = built.args.max_tokens
                /\ built.result.value.temperature = built.args.temperature
                /\ built.result.value.top_p = built.args.top_p

\* A construction at both inclusive upper bounds (temperature 2.0, top_p 1.0)
\* that succeeded.
C21_Witness ==
    /\ built.used /\ built.done
    /\ built.args.temperature = 20 /\ built.args.top_p = 10
    /\ ~built.result.raised

\* A construction with temperature just above 2.0 that raised.
C21_WitnessRejected ==
    /\ built.used /\ built.done
    /\ built.args.prompt # "" /\ built.args.max_tokens > 0
    /\ built.args.temperature = 21
    /\ built.result.raised

(***************************************************************************)
(* SpecMessages: the message loop of ProviderHandler.handle_generate, the  *)
(* part of provider/generate that turns params["messages"] into the        *)
(* prompt, the history and the system instruction of the AIRequest.        *)
(***************************************************************************)
\* Longest message list given to the loop.
MaxMessages == 3

\* "function" stands for every role the loop has no branch for.
Roles == {"system", "user", "assistant", "tool", "function"}
MessageContents == {"", "x", "y"}
Messages == [role : Roles, content : MessageContents]
MessageLists == UNION {[1..n -> Messages] : n \in 0..MaxMessages}

ChatMessage(role, content) == [role |-> role, content |-> content]

\* One pass of the for loop over the locals prompt, history, system_instruction.
ScanMessage(acc, msg) ==
    CASE msg.role = "system" ->
            [acc EXCEPT !.system_instruction = JStr(msg.content)]
      [] msg.role = "user" ->
            IF acc.prompt = "" THEN [acc EXCEPT !.prompt = msg.content]
            ELSE [acc EXCEPT !.history = Append(@, ChatMessage("user", msg.content))]
      [] msg.role = "assistant" ->
            [acc EXCEPT !.history = Append(@, ChatMessage("assistant", msg.content))]
      [] msg.role = "tool" ->
            [acc EXCEPT !.history = Append(@, ChatMessage("tool", msg.content))]
      [] OTHER -> acc

RECURSIVE ScanMessages(_, _)
ScanMessages(acc, messages) ==
    IF messages = <<>> THEN acc
    ELSE ScanMessages(ScanMessage(acc, Head(messages)), Tail(messages))

\* The loop, then the fallback `if not prompt and history: last = history.pop()`.
build_prompt(messages) ==
    LET a == ScanMessages([prompt |-> "", history |-> <<>>, system_instruction |-> PyNone],
                          messages)
    IN  IF a.prompt = "" /\ a.history # <<>>
        THEN [a EXCEPT !.prompt = a.history[Len(a.history)].content,
                       !.history = SubSeq(a.history, 1, Len(a.history) - 1)]
        ELSE a

InitMessages ==
    /\ conv \in {[used |-> TRUE, done |-> FALSE, messages |-> ms, built |-> FALSE,
                   out |-> [prompt |-> "", history |-> <<>>, system_instruction |-> PyNone]] :
                  ms \in MessageLists}
    /\ DispatchIdle /\ RouterIdle /\ ImageIdle /\ ExecuteIdle
    /\ StreamIdle /\ GenerateIdle /\ HealthIdle /\ SkillIdle
    /\ BuiltIdle /\ SideCallIdle /\ CapsIdle
    /\ ReleaseIdle /\ StdioIdle /\ ImgCallIdle /\ BackRefIdle
    /\ LastIdle

\* Lines 41-85: the locals after the loop and the fallback; a request is built
\* from them unless the prompt is still empty.
BuildPrompt ==
    /\ conv.used /\ ~conv.done
    /\ LET r == build_prompt(conv.messages)
       IN  conv' = [conv EXCEPT !.done = TRUE, !.built = (r.prompt # ""), !.out = r]
    /\ UNCHANGED <<dvars, rvars, ivars, evars, svars, gvars, hvars, kvars>>
    /\ UNCHANGED <<built, sideCall, caps, stRelease, stdio, imgCall, backRef, zvars>>

NextMessages == BuildPrompt

SpecMessages == InitMessages /\ [][NextMessages]_vars

\* The messages of a list that are not system messages, in order.
Conversation(ms) == SelectSeq(ms, LAMBDA m : m.role # "system")
HasUser(ms) == \E i \in DOMAIN ms : ms[i].role = "user"
FirstUser(ms) == CHOOSE i \in DOMAIN ms : ms[i].role = "user" /\ \A j \in 1..(i - 1) : ms[j].role # "user"
WithoutIndex(ms, i) == SubSeq(ms, 1, i - 1) \o SubSeq(ms, i + 1, Len(ms))

\* C25: in the request provider/generate builds, no system message is left
\* in the conversation and every system message is in the system
\* instruction; the prompt is the first user message, or without a user
\* message the last message of the conversation; the history is every other
\* non-system message in its original order.
C25_MessageConversion ==
    (conv.used /\ conv.done /\ conv.built) =>
        LET ms == conv.messages
            c == Conversation(ms)
            at == IF HasUser(c) THEN FirstUser(c) ELSE Len(c)
        IN  /\ \A i \in DOMAIN ms :
                    ms[i].role = "system" => conv.out.system_instruction = JStr(ms[i].content)
            /\ c # <<>>
            /\ conv.out.prompt = c[at].content
            /\ conv.out.history = WithoutIndex(c, at)

\* Lists on which the loop has a branch for every role, a single system
\* message at most and no empty content.
WellFormed(ms) ==
    /\ \A i \in DOMAIN ms : ms[i].role # "function" /\ ms[i].content # ""
    /\ Cardinality({i \in DOMAIN ms : ms[i].role = "system"}) <= 1

\* C25 on well-formed lists: there the conversion is as described.
C25_WellFormedHolds ==
    (conv.used /\ conv.done /\ WellFormed(conv.messages)) =>
        LET ms == conv.messages
            c == Conversation(ms)
            at == IF HasUser(c) THEN FirstUser(c) ELSE Len(c)
        IN  /\ conv.built <=> c # <<>>
            /\ conv.built =>
                /\ \A i \in DOMAIN ms :
                        ms[i].role = "system" => conv.out.system_instruction = JStr(ms[i].content)
                /\ conv.out.prompt = c[at].content
                /\ conv.out.history = WithoutIndex(c, at)

\* A converted list with a system message, no user message and two other
\* messages: the last became the prompt, the other stayed in the history.
C25_Witness ==
    /\ conv.used /\ conv.done /\ conv.built
    /\ WellFormed(conv.messages)
    /\ ~HasUser(conv.messages)
    /\ \E i \in DOMAIN conv.messages : conv.messages[i].role = "system"
    /\ Len(conv.out.history) = 1

(***************************************************************************)
(* SpecTransports: the two entry points of text generation over one        *)
(* router: gRPC Generate over GenerateResponseUseCase.execute, and         *)
(* JSON-RPC provider/generate (ProviderHandler.handle_generate).           *)
(***************************************************************************)
\* The result dict of handle_generate: finish_reason is "error" on the two
\* error returns, and the provider's own finish_reason otherwise.
SideError(content, model) ==
    [content |-> content, finish_reason |-> "error", model_used |-> ModelName(model),
     tokens_used |-> 0]
SideAnswer(response) ==
    [content |-> response.content, finish_reason |-> "response.finish_reason",
     model_used |-> response.model_used, tokens_used |-> "response.tokens_used"]

SideOutcome(trace, result) == [trace |-> trace, result |-> result]
Called(op, ret) == [op |-> op, ret |-> ret]

\* params["options"]: absent keys read as the defaults 8192 and 0.7.
SideOptions ==
    {[max_tokens |-> 8192, temperature |-> 7], [max_tokens |-> 8192, temperature |-> 25],
     [max_tokens |-> 0, temperature |-> 7]}
SideMessageLists ==
    {<<>>,
     <<[role |-> "user", content |-> "x"]>>,
     <<[role |-> "system", content |-> "y"], [role |-> "assistant", content |-> "x"]>>}
\* params["model"]: a model of each family.
SideModels == {Model("claude-", "2.1"), Model("gemini-", "3-flash")}
SideParams ==
    [provider : ProviderNames, model : SideModels, messages : SideMessageLists, options : SideOptions]

\* Mutant: a handler without its except clause, which lets the fault of the
\* router or of the provider through to the dispatcher.
Reraised(fault, model) == fault

\* handle_generate's except clause: the error result made of the fault.
Caught(fault, model) == Return(SideError("Error: " \o fault.message, model))

\* A provider/generate call that is not suspended in the provider.
NotSuspended == [request |-> NoRequest, provider |-> NoProvider]

\* ProviderHandler.handle_generate up to `await provider.generate(request)`:
\* the calls made so far, and either what the handler returns or raises
\* without reaching the provider, or the request and the provider of the
\* pending generate.  top_p is left at the dataclass default 0.95, inside
\* its range.
provider_generate_call(reg, params) ==
    LET m == build_prompt(params.messages)
        request == AIRequest(m.prompt, params.model, params.provider,
                             params.options.max_tokens, params.options.temperature, 9)
        routed == get_provider(reg, request.value)
    IN  IF m.prompt = ""
        THEN [pending |-> FALSE, trace |-> <<>>, result |-> Return(SideError("", params.model)),
              at |-> NotSuspended]
        ELSE IF request.raised
        THEN [pending |-> FALSE, trace |-> <<>>, result |-> request, at |-> NotSuspended]
        ELSE IF routed.raised
        THEN [pending |-> FALSE, trace |-> <<Called("get_provider", routed)>>,
              result |-> Caught(routed, params.model), at |-> NotSuspended]
        ELSE [pending |-> TRUE, trace |-> <<Called("get_provider", routed)>>,
              result |-> NoResult,
              at |-> [request |-> request.value, provider |-> routed.value]]

\* Mutant: a handler that calls generate a second time when the first call raised.
provider_generate_retrying(trace, params, g) ==
    IF g.raised
    THEN SideOutcome(trace \o <<Called("generate", g), Called("generate", g)>>,
                     Caught(g, params.model))
    ELSE SideOutcome(Append(trace, Called("generate", g)), Return(SideAnswer(g.value)))

\* ProviderHandler.handle_generate from the outcome g of the pending generate
\* on: the calls made and what the handler returns.
provider_generate(trace, params, g) ==
    SideOutcome(Append(trace, Called("generate", g)),
                IF g.raised THEN Caught(g, params.model) ELSE Return(SideAnswer(g.value)))

\* The wire requests given to Generate here: set numeric fields, in range or not.
TransportRequests ==
    {q \in WireRequests : q.max_tokens = 100 /\ q.top_p = 9 /\ q.temperature \in {7, 25}
                              /\ q.model \in SideModels}

InitTransports == InitGenerate

\* The id of the provider/generate request.
SideRequestId == JInt("1")

\* handle_request's envelope of what handle_generate returned or raised.
SideEnvelope(result) ==
    Respond(SideRequestId, [raises |-> result.raised, value |-> result.value, msg |-> result.message])

\* provider/generate is dispatched to handle_generate, which runs up to its
\* await of the provider's generate, or to its end when it does not get
\* there; handle_request then makes the envelope of what it returned or raised.
ProviderGenerate(params) ==
    /\ IF sideCall.used THEN sideCall.pc = "done" ELSE TRUE
    /\ LET o == provider_generate_call(providers, params)
       IN  sideCall' = [used |-> TRUE, pc |-> IF o.pending THEN "generate" ELSE "done",
                        params |-> params, at |-> o.at, trace |-> o.trace, result |-> o.result,
                        envelope |-> IF o.pending THEN NoResponse ELSE SideEnvelope(o.result)]
    /\ UNCHANGED <<dvars, rvars, ivars, evars, svars, gvars, hvars, kvars>>
    /\ UNCHANGED <<built, caps, conv, stRelease, stdio, imgCall, backRef, zvars>>

\* The provider's generate answers or raises: handle_generate resumes and
\* returns, and handle_request makes the envelope.
ProviderGenerateAnswer(g) ==
    /\ sideCall.used /\ sideCall.pc = "generate"
    /\ g \in generate(sideCall.at.provider, sideCall.at.request)
    /\ LET o == provider_generate(sideCall.trace, sideCall.params, g)
       IN  sideCall' = [sideCall EXCEPT !.pc = "done", !.trace = o.trace, !.result = o.result,
                                        !.envelope = SideEnvelope(o.result)]
    /\ UNCHANGED <<dvars, rvars, ivars, evars, svars, gvars, hvars, kvars>>
    /\ UNCHANGED <<built, caps, conv, stRelease, stdio, imgCall, backRef, zvars>>

NextTransports ==
    \/ \E request \in TransportRequests : GenerateCall(request)
    \/ GenerateConvert
    \/ ExecuteRoute
    \/ \E available \in BOOLEAN : ExecuteIsAvailable(available)
    \/ \E g \in GenerateOutcomes : ExecuteGenerate(g)
    \/ GenerateRespond
    \/ \E params \in SideParams : ProviderGenerate(params)
    \/ \E g \in GenerateOutcomes : ProviderGenerateAnswer(g)

SpecTransports == InitTransports /\ [][NextTransports]_vars

\* In a sequence of calls, every generate comes after an is_available of the
\* same call that returned true.
AvailabilityChecked(trace) ==
    \A i \in DOMAIN trace :
        trace[i].op = "generate" =>
            \E j \in 1..(i - 1) :
                /\ trace[j].op = "is_available"
                /\ ~trace[j].ret.raised /\ trace[j].ret.value = TRUE

\* C22: over gRPC Generate and over JSON-RPC provider/generate alike, the
\* provider's generate is invoked only in a call in which is_available() was
\* called before it and returned true.
C22_AvailabilityFirst ==
    /\ AvailabilityChecked(exTrace)
    /\ sideCall.used => AvailabilityChecked(sideCall.trace)

\* C22 for the gRPC transport alone: there the use case asks first.
C22_GrpcHolds == AvailabilityChecked(exTrace)

\* A provider/generate call in which generate was invoked and answered.
C22_Witness ==
    /\ sideCall.used
    /\ Len(sideCall.trace) = 2
    /\ sideCall.trace[2].op = "generate" /\ ~sideCall.trace[2].ret.raised

Count(trace, op) == Cardinality({i \in DOMAIN trace : trace[i].op = op})
\* The last call of a trace raised this fault.
EndsRaising(trace) == trace # <<>> /\ trace[Len(trace)].ret.raised

\* C29: within one call, over either transport, the router is consulted at
\* most once and generate is invoked at most once; a call that got past the
\* validation of its request and ended has consulted the router exactly
\* once; and when the router or generate raised, that call was the last one
\* made and the call ended with that fault: a non-OK status and no response
\* over gRPC, the error result carrying the fault's message over JSON-RPC.
C29_NoRetry ==
    /\ Count(exTrace, "get_provider") <= 1 /\ Count(exTrace, "generate") <= 1
    /\ \A i \in DOMAIN exTrace : exTrace[i].ret.raised => i = Len(exTrace)
    /\ (gPc = "done" /\ ~to_domain_request(gReq).raised) =>
            Count(exTrace, "get_provider") = 1
    /\ (gPc = "done" /\ EndsRaising(exTrace)) =>
            /\ exResult = exTrace[Len(exTrace)].ret
            /\ gStatus = StatusOf(exResult) /\ gStatus.code # "OK"
            /\ gResponse = NoWireResponse
    /\ sideCall.used =>
            /\ Count(sideCall.trace, "get_provider") <= 1
            /\ Count(sideCall.trace, "generate") <= 1
            /\ \A i \in DOMAIN sideCall.trace :
                    sideCall.trace[i].ret.raised => i = Len(sideCall.trace)
            /\ (sideCall.pc = "done" /\ ~sideCall.result.raised
                    /\ sideCall.result.value.content # "") =>
                    Count(sideCall.trace, "get_provider") = 1
            /\ EndsRaising(sideCall.trace) =>
                    sideCall.result =
                        Return(SideError("Error: " \o sideCall.trace[Len(sideCall.trace)].ret.message,
                                         sideCall.params.model))

\* A gRPC Generate call whose provider's generate raised, ended.
C29_Witness ==
    /\ gPc = "done"
    /\ Len(exTrace) = 3 /\ exTrace[3].op = "generate" /\ exTrace[3].ret.raised

\* A provider/generate call whose provider's generate raised.
C29_WitnessSideload ==
    /\ sideCall.used
    /\ Len(sideCall.trace) = 2
    /\ sideCall.trace[2].op = "generate" /\ sideCall.trace[2].ret.raised

(***************************************************************************)
(* SpecCapabilities: sideload start-up (create_providers, ModelRouter,     *)
(* create_skill_registry) and the initialize response built from           *)
(* ProviderHandler.get_capabilities and ToolHandler.get_capabilities.      *)
(***************************************************************************)
\* config.providers: the names of the configuration file, each with its
\* ProviderConfig.  "gemini" is a name create_providers has no branch for.
ConfigNames == {"antigravity", "anthropic", "ollama", "gemini"}
ProviderConfig(enabled, api_key) ==
    [enabled |-> enabled, api_key |-> api_key]
ProviderConfigs == {ProviderConfig(e, k) : e \in BOOLEAN, k \in {"", "key"}}
Configs == UNION {[S -> ProviderConfigs] : S \in SUBSET ConfigNames}
\* ProviderConfig.models as the configuration file lists them.
ConfigModels(name) ==
    CASE name = "antigravity" -> {"gemini-3-flash"}
      [] name = "anthropic" -> {"claude-2.1"}
      [] name = "ollama" -> {}
      [] OTHER -> {"gemini-next"}

\* The branches of create_providers over these names: a provider is created
\* for an enabled entry that has an API key, for ollama without one.
Created(config) ==
    {n \in DOMAIN config \cap {"antigravity", "anthropic", "ollama"} :
        config[n].enabled /\ (n = "ollama" \/ config[n].api_key # "")}
ProviderFor(name) ==
    IF name = "anthropic" THEN Instance("AnthropicProvider", "a1")
    ELSE IF name = "antigravity" THEN Instance("OpenAIProvider", "o1")
    ELSE Instance("OpenAIProvider", "o2")

\* create_providers: with no provider created it falls back to MockProvider(),
\* an abstract class (it defines no supports_model), so the call raises.
create_providers(config) ==
    IF Created(config) = {}
    THEN Raise("TypeError",
               "Can't instantiate abstract class MockProvider with abstract method supports_model")
    ELSE Return([n \in Created(config) |-> ProviderFor(n)])

\* ProviderHandler.get_capabilities: the enabled entries of the configuration.
provider_capabilities(config) ==
    {[id |-> n, models |-> ConfigModels(n)] : n \in {m \in DOMAIN config : config[m].enabled}}

description(skill) ==
    CASE skill.cls = "TimeSkill" -> "Get the current time and date."
      [] skill.cls = "EchoSkill" -> "Echoes back the input text."
      [] skill.cls = "CalculatorSkill" -> "Evaluates a simple mathematical expression."
      [] OTHER -> ""
\* ToolHandler.get_capabilities: one entry per skill of the registry.
tool_capabilities(reg) ==
    {[name |-> reg[n].name, description |-> description(reg[n])] : n \in DOMAIN reg}

NoCapabilities == [providers |-> {}, tools |-> {}]

InitCapabilities ==
    /\ caps \in {[used |-> TRUE, pc |-> "start", config |-> c, registry |-> Return(EmptyRegistry),
                   skills |-> [n \in {} |-> ""], response |-> NoCapabilities] : c \in Configs}
    /\ DispatchIdle /\ RouterIdle /\ ImageIdle /\ ExecuteIdle
    /\ StreamIdle /\ GenerateIdle /\ HealthIdle /\ SkillIdle
    /\ BuiltIdle /\ SideCallIdle /\ ConvIdle
    /\ ReleaseIdle /\ StdioIdle /\ ImgCallIdle /\ BackRefIdle
    /\ LastIdle

\* main: providers = create_providers(config), skill_registry =
\* create_skill_registry(config); run_sideload: ModelRouter(providers=providers).
StartUp ==
    /\ caps.used /\ caps.pc = "start"
    /\ LET r == create_providers(caps.config)
       IN  caps' = [caps EXCEPT !.pc = IF r.raised THEN "failed" ELSE "serving",
                                !.registry = r,
                                !.skills = IF r.raised THEN @ ELSE BasicSkills]
    /\ UNCHANGED <<dvars, rvars, ivars, evars, svars, gvars, hvars, kvars>>
    /\ UNCHANGED <<built, sideCall, conv, stRelease, stdio, imgCall, backRef, zvars>>

\* handle_initialize
Initialize ==
    /\ caps.used /\ caps.pc \in {"serving", "answered"}
    /\ caps' = [caps EXCEPT !.pc = "answered",
                             !.response = [providers |-> provider_capabilities(caps.config),
                                           tools |-> tool_capabilities(caps.skills)]]
    /\ UNCHANGED <<dvars, rvars, ivars, evars, svars, gvars, hvars, kvars>>
    /\ UNCHANGED <<built, sideCall, conv, stRelease, stdio, imgCall, backRef, zvars>>

NextCapabilities == StartUp \/ Initialize

SpecCapabilities == InitCapabilities /\ [][NextCapabilities]_vars

\* A request naming this provider can be routed: for some model the
\* router returns a provider.
Routable(reg, name) ==
    \E m \in Models \cup {Model("gpt-", "4o")} :
        ~get_provider(reg, [provider |-> name, model |-> m]).raised

\* C24: the providers of the initialize response are exactly the providers
\* registered in the router, a name being listed if and only if a request
\* naming it can be routed, and the tools are exactly the skills of the
\* registry with their names and descriptions.
C24_CapabilitiesExact ==
    (caps.used /\ caps.pc = "answered") =>
        /\ {c.id : c \in caps.response.providers} = DOMAIN caps.registry.value
        /\ \A n \in ConfigNames :
                n \in {c.id : c \in caps.response.providers} <=> Routable(caps.registry.value, n)
        /\ caps.response.tools =
                {[name |-> caps.skills[n].name, description |-> description(caps.skills[n])] :
                    n \in DOMAIN caps.skills}

\* C24 for the tools alone: they are the registered skills.
C24_ToolsExact ==
    (caps.used /\ caps.pc = "answered") =>
        /\ {t.name : t \in caps.response.tools} = DOMAIN caps.skills
        /\ \A t \in caps.response.tools : t.description = description(caps.skills[t.name])

\* An initialize response that lists a provider the router does not hold.
C24_Witness ==
    /\ caps.used /\ caps.pc = "answered"
    /\ \E c \in caps.response.providers : c.id \notin DOMAIN caps.registry.value

(***************************************************************************)
(* SpecBackRef: one Generate call followed end to end with the identity    *)
(* of its request: _to_domain_request gives the AIRequest a fresh id, the  *)
(* routed provider's generate builds the AIResponse, Generate copies its   *)
(* request_id into the GenerateResponse.                                   *)
(***************************************************************************)
\* str(uuid.uuid4())
RequestIds == {"uuid-1", "uuid-2"}

\* Providers a ModelRouter can hold: instances of the provider classes that
\* can be instantiated.  MockProvider is not among them: it defines no
\* supports_model, which AIProvider declares abstract, so MockProvider()
\* raises TypeError (see create_providers) and no router ever holds one.
BackRefInstances ==
    {Instance("AnthropicProvider", "a1"), Instance("GeminiProvider", "g1"),
     Instance("OpenAIProvider", "o1"), Instance("MiniMaxProvider", "x1")}

AIResponse(request_id, content, model_used) ==
    [request_id |-> request_id, content |-> content, model_used |-> model_used]

\* Mutant: providers that give the AIResponse an id of their own.
generate_with_own_id(p, request) ==
    CASE p.cls = "MiniMaxProvider" ->
            {Return(AIResponse("resp-1", c, ModelName(request.model))) : c \in Contents}
                \cup {Raise("ValueError", "Content cannot be empty"),
                      Raise("APIError", "backend fault")}
      [] OTHER ->
            {IF g.raised THEN g
             ELSE Return(AIResponse("resp-1", g.value.content, g.value.model_used)) :
                g \in generate(p, request)}

\* generate(request) of each provider class, with the request_id it gives
\* the AIResponse: request_id=request.id in each of them.
generate_with_id(p, request) ==
    CASE p.cls = "MiniMaxProvider" ->
            {Return(AIResponse(request.id, c, ModelName(request.model))) : c \in Contents}
                \cup {Raise("ValueError", "Content cannot be empty"),
                      Raise("APIError", "backend fault")}
      [] OTHER ->
            {IF g.raised THEN g
             ELSE Return(AIResponse(request.id, g.value.content, g.value.model_used)) :
                g \in generate(p, request)}

\* ai_service_pb2.GenerateResponse(request_id=ai_response.request_id, ...)
GenerateResponse(ai_response) ==
    [sent |-> TRUE, request_id |-> ai_response.request_id,
     content |-> ai_response.content, model_used |-> ai_response.model_used]

\* The models asked for: those of the other calls, one MiniMaxProvider lists
\* and one it takes by its prefix.
BackRefModels == Models \cup {Model("MiniMax", "-M2.1"), Model("abab", "7-chat")}
BackRefRequests ==
    {[provider |-> "antigravity", model |-> m, prompt |-> "Hello",
      max_tokens |-> 100, temperature |-> 7, top_p |-> 9] : m \in BackRefModels}

InitBackRef ==
    /\ backRef = [used |-> TRUE, pc |-> "idle", id |-> "", request |-> NoRequest,
                  registry |-> EmptyRegistry,
                  provider |-> NoProvider, answer |-> NoResult,
                  response |-> NoWireResponse, status |-> NoStatus]
    /\ DispatchIdle /\ RouterIdle /\ ImageIdle /\ ExecuteIdle
    /\ StreamIdle /\ GenerateIdle /\ HealthIdle /\ SkillIdle
    /\ BuiltIdle /\ SideCallIdle /\ CapsIdle /\ ConvIdle
    /\ ReleaseIdle /\ StdioIdle /\ ImgCallIdle
    /\ LastIdle

\* Generate up to `await provider.is_available()`, on a router that holds p
\* under the request's provider name: the request is converted and given the
\* id, and the router returns p or refuses the request, which aborts the call.
BackRefCall(q, id, p) ==
    /\ backRef.pc \in {"idle", "done"}
    /\ ~to_domain_request(q).raised
    /\ LET request == [id |-> id, prompt |-> q.prompt, model |-> q.model, provider |-> q.provider]
           registry == [n \in {q.provider} |-> p]
           routed == get_provider(registry, request)
       IN  backRef' = [used |-> TRUE, pc |-> IF routed.raised THEN "done" ELSE "available",
                       id |-> id, request |-> request, registry |-> registry,
                       provider |-> routed.value,
                       answer |-> IF routed.raised THEN routed ELSE NoResult,
                       response |-> NoWireResponse,
                       status |-> IF routed.raised THEN StatusOf(routed) ELSE NoStatus]
    /\ UNCHANGED <<dvars, rvars, ivars, evars, svars, gvars, hvars, kvars>>
    /\ UNCHANGED <<built, sideCall, caps, conv, stRelease, stdio, imgCall, zvars>>

\* is_available answers: execute goes on to `await provider.generate(request)`
\* or raises RuntimeError, which aborts the call.
BackRefIsAvailable(available) ==
    /\ backRef.pc = "available"
    /\ available \in is_available(backRef.provider)
    /\ LET r == Raise("RuntimeError", UnavailableMessage(backRef.request.provider))
       IN  backRef' = IF NotAvailable(available)
                      THEN [backRef EXCEPT !.pc = "done", !.answer = r, !.status = StatusOf(r)]
                      ELSE [backRef EXCEPT !.pc = "generate"]
    /\ UNCHANGED <<dvars, rvars, ivars, evars, svars, gvars, hvars, kvars>>
    /\ UNCHANGED <<built, sideCall, caps, conv, stRelease, stdio, imgCall, zvars>>

\* generate returns or raises; Generate builds the response or aborts.
BackRefAnswer(a) ==
    /\ backRef.pc = "generate"
    /\ a \in generate_with_id(backRef.provider, backRef.request)
    /\ backRef' = [backRef EXCEPT
            !.pc = "done",
            !.answer = a,
            !.response = IF a.raised THEN NoWireResponse ELSE GenerateResponse(a.value),
            !.status = IF a.raised THEN StatusOf(a) ELSE OkStatus]
    /\ UNCHANGED <<dvars, rvars, ivars, evars, svars, gvars, hvars, kvars>>
    /\ UNCHANGED <<built, sideCall, caps, conv, stRelease, stdio, imgCall, zvars>>

BackRefAnswers ==
    UNION {generate_with_id(p, [id |-> id, prompt |-> q.prompt, model |-> q.model,
                                provider |-> q.provider]) :
            p \in BackRefInstances, id \in RequestIds, q \in BackRefRequests}

NextBackRef ==
    \/ \E q \in BackRefRequests, id \in RequestIds, p \in BackRefInstances : BackRefCall(q, id, p)
    \/ \E available \in BOOLEAN : BackRefIsAvailable(available)
    \/ \E a \in BackRefAnswers : BackRefAnswer(a)

SpecBackRef == InitBackRef /\ [][NextBackRef]_vars

Succeeded == backRef.used /\ backRef.pc = "done" /\ backRef.status = OkStatus

\* A call the router refused, and one whose provider was not available:
\* generate was not invoked.
Refused ==
    /\ backRef.used /\ backRef.pc = "done" /\ backRef.answer.raised
    /\ backRef.answer.exc \in {"ModelRouterError", "RuntimeError"}
    /\ backRef.response = NoWireResponse

\* C23: the result of every successful generation carries the identity of
\* the request that produced it, and the request_id of the gRPC Generate
\* response is that identity, whichever registered provider answered.
C23_BackReference ==
    Succeeded =>
        /\ backRef.answer.value.request_id = backRef.id
        /\ backRef.response.request_id = backRef.id

\* A successful generation answered by the MiniMax provider, for a request
\* that was given the second id.
C23_Witness ==
    /\ Succeeded
    /\ backRef.provider.cls = "MiniMaxProvider"
    /\ backRef.id = "uuid-2"
    /\ backRef.response.request_id = "uuid-2"

\* Successful generations answered by the Anthropic and the Gemini provider.
C23_WitnessAnthropic ==
    Succeeded /\ backRef.provider.cls = "AnthropicProvider" /\ backRef.response.request_id = backRef.id
C23_WitnessGemini ==
    Succeeded /\ backRef.provider.cls = "GeminiProvider" /\ backRef.response.request_id = backRef.id

\* The not-final chunks handed to the wire so far.
Handed(wire) == SelectSeq(wire, LAMBDA c : ~c.is_final)

\* C27: in every state of a GenerateStream call the number of fragments
\* pulled from the provider exceeds the number of chunks handed to the wire
\* by at most one.
C27_LockStep == Len(stProduced) <= Len(Handed(stWire)) + 1

\* C27, as a step property: a fragment is pulled from the provider only when
\* every fragment pulled before it has been handed to the wire.
C27_PullAfterHandOver ==
    [][Len(stProduced') > Len(stProduced) => Len(Handed(stWire)) = Len(stProduced)]_vars

\* The second fragment has been pulled and the first is on the wire.
C27_Witness ==
    /\ Len(stProduced) = 2
    /\ Len(Handed(stWire)) = 1
    /\ stPc = "yield"

(***************************************************************************)
(* SpecStreamCancel: GenerateStream with the client going away.  The       *)
(* framework cancels the call's task, which takes effect where the call is *)
(* suspended.  Suspended at an await below the handler (generate_stream    *)
(* awaiting its backend), the call gets CancelledError at that await: it   *)
(* leaves the open generators                                              *)
(* innermost first, in one step of the event loop, and no except clause of *)
(* the handler catches it.  Suspended at a yield of GenerateStream (a      *)
(* chunk being written), the generators are closed one after the other by  *)
(* the event loop's asynchronous-generator finalizer, outermost first,     *)
(* each closure dropping the last reference to the generator below it.     *)
(* Leaving the provider's generate_stream leaves its `async with` blocks,  *)
(* which releases the backend connection.                                  *)
(***************************************************************************)
Generators == <<"GenerateStream", "execute_stream", "generate_stream">>

\* Mutant: a finalizer that stops above the provider's generator.
CloseNextOuterOnly(closed) ==
    SubSeq(Generators, 1, IF Len(closed) + 1 < 2 THEN Len(closed) + 1 ELSE 2)

\* The generators closed after one more finalization: outermost first.
CloseNext(closed) == SubSeq(Generators, 1, Len(closed) + 1)

\* Where the call is suspended at an await below the handler: generate_stream
\* awaiting its backend.  is_available of the three classes served here
\* returns without suspending.
AtAwait(p) == p = "pull"
\* Where the call is suspended at a yield of GenerateStream.
AtYield(p) == p \in {"sent", "return"}

\* The generators of the call that are open at a suspension point, outermost
\* first: the provider's generate_stream exists from the first pull and is
\* exhausted, with execute_stream, when the closing chunk is yielded.
OpenAt(p) ==
    CASE p \in {"pull", "sent"} -> Generators
      [] p = "return" -> SubSeq(Generators, 1, 1)

RECURSIVE Unwound(_)
\* The order in which an exception raised in the innermost generator leaves
\* the open ones.
Unwound(open) ==
    IF open = <<>> THEN <<>> ELSE Append(Unwound(Tail(open)), Head(open))

InFlight == AtAwait(stPc) \/ AtYield(stPc)

\* The wire stream closes or the client cancels: the call ends where it is
\* suspended.
StreamCancel ==
    /\ InFlight
    /\ stRelease = Unused
    /\ stRelease' = [used |-> TRUE, at |-> stPc,
                     forwarded |-> Len(stWire), pulled |-> Len(stProduced),
                     open |-> OpenAt(stPc),
                     closed |-> IF AtAwait(stPc) THEN Unwound(OpenAt(stPc)) ELSE <<>>]
    /\ stPc' = "cancelled"
    /\ stStatus' = Abort("CANCELLED", "")
    /\ UNCHANGED <<stReq, stDomain, stProvider, stProduced, stEnd, stYielded, stFault, stWire>>
    /\ UNCHANGED <<dvars, rvars, ivars, evars, gvars, hvars, kvars>>
    /\ UNCHANGED <<built, sideCall, caps, conv, stdio, imgCall, backRef, zvars>>

\* The finalizer closes the next generator of a call cancelled at a yield.
StreamClose ==
    /\ stPc = "cancelled"
    /\ stRelease.used
    /\ Len(stRelease.closed) < Len(stRelease.open)
    /\ stRelease' = [stRelease EXCEPT !.closed = CloseNext(@)]
    /\ UNCHANGED svars
    /\ UNCHANGED <<dvars, rvars, ivars, evars, gvars, hvars, kvars>>
    /\ UNCHANGED <<built, sideCall, caps, conv, stdio, imgCall, backRef, zvars>>

NextStreamCancel ==
    \/ \E request \in StreamRequests : StreamCall(request)
    \/ StreamConvert
    \/ StreamRoute
    \/ \E available \in BOOLEAN : StreamIsAvailable(available)
    \/ \E o \in StreamOutcomes : StreamPull(o)
    \/ StreamYield
    \/ StreamEmit
    \/ StreamResume
    \/ StreamFinal
    \/ StreamReturn
    \/ StreamCancel
    \/ StreamClose

\* The event loop runs every finalization it has scheduled.
SpecStreamCancel == InitStream /\ [][NextStreamCancel]_vars /\ WF_vars(StreamClose)

Cancelled == stRelease.used
Closed(name) == \E i \in 1..Len(stRelease.closed) : stRelease.closed[i] = name
Opened(name) == \E i \in 1..Len(stRelease.open) : stRelease.open[i] = name
\* The provider's sequence is not left open: it is over by itself, or it was
\* closed from outside, or the call was cancelled before it was created.
ProviderClosed ==
    \/ stEnd.ended
    \/ stRelease.used /\ (Opened("generate_stream") => Closed("generate_stream"))

\* C26: once the wire stream of a GenerateStream call is cancelled, no
\* further fragment is pulled from the provider and nothing more is
\* forwarded, and the provider's sequence is eventually closed; a call that
\* ran to its end after pulling has the provider's sequence closed as well.
C26_CancelReleases ==
    /\ [](Cancelled => /\ Len(stProduced) = stRelease.pulled
                       /\ Len(stWire) = stRelease.forwarded)
    /\ [](stPc = "done" /\ stProduced # <<>> => stEnd.ended)
    /\ (Cancelled ~> ProviderClosed)

\* A call cancelled while the first chunk was being written, with the
\* provider's sequence still open at that moment, now closed by the finalizer
\* after the two generators above it.
C26_Witness ==
    /\ Cancelled
    /\ stRelease.at = "sent"
    /\ stRelease.forwarded = 1
    /\ ~stEnd.ended
    /\ stRelease.closed = Generators

\* A call cancelled while generate_stream awaited its backend for the second
\* fragment: the generators were left innermost first.
C26_WitnessAtBackend ==
    /\ Cancelled
    /\ stRelease.at = "pull"
    /\ stRelease.forwarded = 1
    /\ stRelease.closed = <<"generate_stream", "execute_stream", "GenerateStream">>

\* A call cancelled after its closing chunk was handed over: the closing
\* chunk is on the wire and the call did not end OK.
C26_WitnessAfterFinal ==
    /\ Cancelled
    /\ stRelease.at = "return"
    /\ Len(stWire) = 3
    /\ stWire[3].is_final
    /\ stStatus.code = "CANCELLED"
    /\ stRelease.closed = <<"GenerateStream">>

(***************************************************************************)
(* SpecStdio: the writers of the sideload's stdout.  The run loop writes   *)
(* one response line per answered request; send_notification, called by    *)
(* any coroutine, writes one notification line.  Coroutines of one event   *)
(* loop interleave at their awaits; here they may interleave between any   *)
(* two write calls.  stdout is the sequence of the pieces written: a line  *)
(* is three pieces, the terminator "\n" is one.                            *)
(***************************************************************************)
\* Lines written to stdout before the model stops writing.
MaxOutputLines == 4

Writers == {"run", "notifier-1", "notifier-2"}
\* json.dumps of a response to request i, of a notification by writer w: no
\* piece of it is a line terminator.
ResponseLine(i) == <<"{\"jsonrpc\":\"2.0\",\"id\":", i, "}">>
NotificationLine(w) == <<"{\"jsonrpc\":\"2.0\",\"method\":", w, "}">>
OutputLines ==
    {ResponseLine(i) : i \in 1..MaxOutputLines} \cup {NotificationLine(w) : w \in Writers}

\* Mutant: the terminator written by a call of its own.
WriteCallsSplit(line) == <<line, <<"\n">>>>

\* sys.stdout.write(line + "\n"); sys.stdout.flush(): the arguments of the
\* write calls made for one line, in order.
WriteCalls(line) == <<line \o <<"\n">>>>

InitStdio ==
    /\ stdio = [used |-> TRUE, out |-> <<>>, pending |-> [w \in Writers |-> <<>>],
                answered |-> 0, started |-> 0]
    /\ DispatchIdle /\ RouterIdle /\ ImageIdle /\ ExecuteIdle
    /\ StreamIdle /\ GenerateIdle /\ HealthIdle /\ SkillIdle
    /\ BuiltIdle /\ SideCallIdle /\ CapsIdle /\ ConvIdle
    /\ ReleaseIdle /\ ImgCallIdle /\ BackRefIdle
    /\ LastIdle

\* run: handle_request has returned a response for the next request.
RunRespond ==
    /\ stdio.pending["run"] = <<>>
    /\ stdio.started < MaxOutputLines
    /\ stdio' = [stdio EXCEPT !.answered = @ + 1, !.started = @ + 1,
                              !.pending["run"] = WriteCalls(ResponseLine(stdio.answered + 1))]
    /\ UNCHANGED <<dvars, rvars, ivars, evars, svars, gvars, hvars, kvars>>
    /\ UNCHANGED <<built, sideCall, caps, conv, stRelease, imgCall, backRef, zvars>>

\* send_notification is called by a coroutine.
SendNotification(w) ==
    /\ w # "run"
    /\ stdio.pending[w] = <<>>
    /\ stdio.started < MaxOutputLines
    /\ stdio' = [stdio EXCEPT !.started = @ + 1,
                              !.pending[w] = WriteCalls(NotificationLine(w))]
    /\ UNCHANGED <<dvars, rvars, ivars, evars, svars, gvars, hvars, kvars>>
    /\ UNCHANGED <<built, sideCall, caps, conv, stRelease, imgCall, backRef, zvars>>

\* One write call (with its flush) of a writer reaches stdout.
Write(w) ==
    /\ stdio.pending[w] # <<>>
    /\ stdio' = [stdio EXCEPT !.out = @ \o Head(stdio.pending[w]),
                              !.pending[w] = Tail(@)]
    /\ UNCHANGED <<dvars, rvars, ivars, evars, svars, gvars, hvars, kvars>>
    /\ UNCHANGED <<built, sideCall, caps, conv, stRelease, imgCall, backRef, zvars>>

NextStdio ==
    \/ RunRespond
    \/ \E w \in Writers : SendNotification(w)
    \/ \E w \in Writers : Write(w)

SpecStdio == InitStdio /\ [][NextStdio]_vars

\* The stream is a sequence of whole lines, each followed by its terminator.
RECURSIVE WholeLines(_)
WholeLines(stream) ==
    \/ stream = <<>>
    \/ \E line \in OutputLines :
            /\ Len(stream) > Len(line)
            /\ SubSeq(stream, 1, Len(line)) = line
            /\ stream[Len(line) + 1] = "\n"
            /\ WholeLines(SubSeq(stream, Len(line) + 2, Len(stream)))

\* C28: whatever the interleaving of the run loop and of send_notification
\* calls, stdout is at every moment a sequence of whole lines: no piece of a
\* line lies inside another line.
C28_WholeLines == stdio.used => WholeLines(stdio.out)

\* Two writers had a line to write at the same moment, and three lines,
\* a response among them, are on stdout.
C28_Witness ==
    /\ stdio.used
    /\ Len(stdio.out) = 3 * 4
    /\ \E i \in 1..MaxOutputLines : SubSeq(stdio.out, 5, 7) = ResponseLine(i)
    /\ SubSeq(stdio.out, 1, 3) \in {NotificationLine(w) : w \in Writers}

(***************************************************************************)
(* SpecGenerateImage: gRPC GenerateImage.  main wires the servicer with a  *)
(* GenerateImageUseCase over the image router when create_image_providers  *)
(* returned a provider, and with None otherwise.                           *)
(***************************************************************************)
\* The fields of the wire ImageRequest that GenerateImage reads; an unset
\* numeric field reads as 0.
ImageWireRequests ==
    [prompt : {"", "cat"}, model : ImageModels, width : {0, 512}, num_images : {0, 2}]

\* ImageRequest(...): the dataclass and its __post_init__ validation; the
\* provider is left at the default "openai".
ImageRequest(prompt, model, width, height, num_images) ==
    IF prompt = "" THEN Raise("ValueError", "Prompt cannot be empty")
    ELSE IF width <= 0 \/ height <= 0 THEN Raise("ValueError", "Dimensions must be positive")
    ELSE IF num_images <= 0 THEN Raise("ValueError", "Number of images must be positive")
    ELSE Return([provider |-> "openai", model |-> model, prompt |-> prompt,
                 width |-> width, height |-> height, num_images |-> num_images])

\* provider.generate_image(request): the image URLs, or a backend fault.
generate_image(p, request) ==
    {Return([image_urls |-> <<"url-1">>, model_used |-> request.model]),
     Raise("APIError", "backend fault")}

\* GenerateImageUseCase(image_router) if image_providers else None
generate_image_use_case(items) == IF items # <<>> THEN "GenerateImageUseCase" ELSE "None"

ImageOutcome(trace, status, response) == [trace |-> trace, status |-> status, response |-> response]
ImageResponse(image_response) ==
    [sent |-> TRUE, image_urls |-> image_response.image_urls,
     model_used |-> image_response.model_used]

\* A GenerateImage call that ended before reaching the provider, and one
\* suspended at `await provider.generate_image(request)`.
NoImagePending == [request |-> NoRequest, provider |-> NoProvider]
ImageEnded(trace, status) ==
    [pending |-> FALSE, trace |-> trace, status |-> status, at |-> NoImagePending]
ImagePending(trace, request, provider) ==
    [pending |-> TRUE, trace |-> trace, status |-> NoStatus,
     at |-> [request |-> request, provider |-> provider]]

\* GenerateImage after its guard, up to the provider's generate_image: the
\* request is built and the use case routes it; the except clauses map a
\* fault raised so far.
GenerateImageBody(items, q) ==
    LET request == ImageRequest(q.prompt, q.model,
                                IF q.width > 0 THEN q.width ELSE 1024, 1024,
                                IF q.num_images > 0 THEN q.num_images ELSE 1)
        built_ == <<Called("ImageRequest", request)>>
        routed == IF generate_image_use_case(items) = "None"
                  THEN Raise("AttributeError", "'NoneType' object has no attribute 'execute'")
                  ELSE image_get_provider(items, request.value)
        routing == IF generate_image_use_case(items) = "None" THEN built_
                   ELSE Append(built_, Called("get_provider", routed))
    IN  IF request.raised THEN ImageEnded(built_, StatusOf(request))
        ELSE IF routed.raised THEN ImageEnded(routing, StatusOf(routed))
        ELSE ImagePending(routing, request.value, routed.value)

\* Mutant: a GenerateImage whose guard does not end the call.
GenerateImageUnguarded(items, q) == GenerateImageBody(items, q)

\* AIServiceServicer.GenerateImage up to the provider's generate_image:
\* without a use case the call is aborted before anything else runs;
\* context.abort raises.
GenerateImage(items, q) ==
    IF generate_image_use_case(items) = "None"
    THEN ImageEnded(<<>>, Abort("UNIMPLEMENTED", "Image generation not configured"))
    ELSE GenerateImageBody(items, q)

\* GenerateImage from the outcome g of the provider's generate_image on: the
\* response is built, or an except clause maps the fault.
GenerateImageResumed(trace, g) ==
    ImageOutcome(Append(trace, Called("generate_image", g)),
                 IF g.raised THEN StatusOf(g) ELSE OkStatus,
                 IF g.raised THEN NoWireResponse ELSE ImageResponse(g.value))

InitGenerateImage ==
    /\ imageProviders \in ImageRegistries
    /\ imageResult = NoImageRoute
    /\ DispatchIdle /\ RouterIdle /\ ExecuteIdle
    /\ StreamIdle /\ GenerateIdle /\ HealthIdle /\ SkillIdle
    /\ BuiltIdle /\ SideCallIdle /\ CapsIdle /\ ConvIdle
    /\ ReleaseIdle /\ StdioIdle /\ ImgCallIdle /\ BackRefIdle
    /\ LastIdle

\* GenerateImage is called and runs until it ends or is suspended in the
\* provider's generate_image.
GrpcGenerateImage(q) ==
    /\ IF imgCall.used THEN imgCall.pc = "done" ELSE TRUE
    /\ LET o == GenerateImage(imageProviders, q)
       IN  imgCall' = [used |-> TRUE, pc |-> IF o.pending THEN "generate_image" ELSE "done",
                       request |-> q, at |-> o.at, trace |-> o.trace,
                       status |-> o.status, response |-> NoWireResponse]
    /\ UNCHANGED <<dvars, rvars, ivars, evars, svars, gvars, hvars, kvars>>
    /\ UNCHANGED <<built, sideCall, caps, conv, stRelease, stdio, backRef, zvars>>

\* The provider's generate_image answers or raises: GenerateImage resumes
\* and ends.
GrpcGenerateImageAnswer(g) ==
    /\ imgCall.used /\ imgCall.pc = "generate_image"
    /\ g \in generate_image(imgCall.at.provider, imgCall.at.request)
    /\ LET o == GenerateImageResumed(imgCall.trace, g)
       IN  imgCall' = [imgCall EXCEPT !.pc = "done", !.trace = o.trace,
                                      !.status = o.status, !.response = o.response]
    /\ UNCHANGED <<dvars, rvars, ivars, evars, svars, gvars, hvars, kvars>>
    /\ UNCHANGED <<built, sideCall, caps, conv, stRelease, stdio, backRef, zvars>>

\* The outcomes a provider's generate_image can have on these requests.
ImageAnswers ==
    UNION {generate_image(NoProvider, [model |-> m]) : m \in ImageModels}

NextGenerateImage ==
    \/ \E q \in ImageWireRequests : GrpcGenerateImage(q)
    \/ \E g \in ImageAnswers : GrpcGenerateImageAnswer(g)

SpecGenerateImage == InitGenerateImage /\ [][NextGenerateImage]_vars

\* C30: GenerateImage on a service started without image providers, hence
\* without an image use case, ends the call with UNIMPLEMENTED; no image
\* request is built, no image router or image provider operation is invoked
\* and no response is returned.
C30_ImageUnimplemented ==
    (imgCall.used /\ imageProviders = <<>>) =>
        /\ imgCall.pc = "done"
        /\ imgCall.status.code = "UNIMPLEMENTED"
        /\ imgCall.trace = <<>>
        /\ imgCall.response = NoWireResponse

\* A GenerateImage call with a valid request on a service without image
\* providers.
C30_Witness ==
    /\ imgCall.used /\ imageProviders = <<>>
    /\ imgCall.request.prompt # ""
    /\ imgCall.status = Abort("UNIMPLEMENTED", "Image generation not configured")

\* A GenerateImage call on a configured service that returned image URLs.
C30_WitnessConfigured ==
    /\ imgCall.used /\ imageProviders # <<>>
    /\ imgCall.status = OkStatus
    /\ Len(imgCall.trace) = 3

(***************************************************************************)
(* SpecRegistry: ModelRouter's registry under any interleaving of          *)
(* register_provider, unregister_provider and get_provider.  None of the   *)
(* three awaits, so each call is one step.  regLog keeps the registry the  *)
(* router was built with, the mutations made since, and how many of them   *)
(* the latest get_provider came after.                                     *)
(***************************************************************************)
MaxOps == 3

LogNames == {"anthropic", "gemini"}
LogInstances ==
    {Instance("AnthropicProvider", "a1"), Instance("AnthropicProvider", "a2"),
     Instance("GeminiProvider", "g1")}
LogRequests == [provider : LogNames, model : {Model("claude-", "2.1"), Model("gemini-", "3-flash")}]

\* Mutant: register_provider that keeps an earlier registration (dict.setdefault).
register_provider_setdefault(reg, name, p) ==
    [n \in DOMAIN reg \cup {name} |-> IF n \in DOMAIN reg THEN reg[n] ELSE p]

\* ModelRouter.register_provider: self._providers[name] = provider
register_provider(reg, name, p) ==
    [n \in DOMAIN reg \cup {name} |-> IF n = name THEN p ELSE reg[n]]

\* ModelRouter.unregister_provider: self._providers.pop(name, None)
unregister_provider(reg, name) ==
    [n \in DOMAIN reg \ {name} |-> reg[n]]

LogRegister(name, p) == [op |-> "register", name |-> name, provider |-> p]
LogUnregister(name) == [op |-> "unregister", name |-> name, provider |-> NoProvider]

InitRegistry ==
    /\ providers \in {EmptyRegistry, [n \in {"anthropic"} |-> Instance("AnthropicProvider", "a1")]}
    /\ routeResult = NoRoute
    /\ regLog = [used |-> TRUE, start |-> providers, ops |-> <<>>, at |-> 0]
    /\ DispatchIdle /\ ImageIdle /\ ExecuteIdle
    /\ StreamIdle /\ GenerateIdle /\ HealthIdle /\ SkillIdle
    /\ BuiltIdle /\ SideCallIdle /\ CapsIdle /\ ConvIdle
    /\ ReleaseIdle /\ StdioIdle /\ ImgCallIdle /\ BackRefIdle
    /\ ToolCallIdle /\ StIdsIdle /\ StopLogIdle /\ GenWireIdle

RegistryUnchanged ==
    UNCHANGED <<dvars, ivars, evars, svars, gvars, hvars, kvars,
                built, sideCall, caps, conv, stRelease, stdio, imgCall, backRef,
                toolCall, stIds, stopLog, genWire>>

RegistryRegister(name, p) ==
    /\ Len(regLog.ops) < MaxOps
    /\ providers' = register_provider(providers, name, p)
    /\ regLog' = [regLog EXCEPT !.ops = Append(@, LogRegister(name, p))]
    /\ UNCHANGED routeResult
    /\ RegistryUnchanged

RegistryUnregister(name) ==
    /\ Len(regLog.ops) < MaxOps
    /\ providers' = unregister_provider(providers, name)
    /\ regLog' = [regLog EXCEPT !.ops = Append(@, LogUnregister(name))]
    /\ UNCHANGED routeResult
    /\ RegistryUnchanged

RegistryGetProvider(request) ==
    /\ routeResult' = [called |-> TRUE, request |-> request, reg |-> providers,
                       result |-> get_provider(providers, request)]
    /\ regLog' = [regLog EXCEPT !.at = Len(regLog.ops)]
    /\ UNCHANGED providers
    /\ RegistryUnchanged

NextRegistry ==
    \/ \E name \in LogNames, p \in LogInstances : RegistryRegister(name, p)
    \/ \E name \in LogNames : RegistryUnregister(name)
    \/ \E request \in LogRequests : RegistryGetProvider(request)

SpecRegistry == InitRegistry /\ [][NextRegistry]_vars

\* The provider a name stands for after the mutations ops made to the registry
\* start: that of the latest mutation naming it, else the one it started with.
RECURSIVE Current(_, _, _)
Current(start, ops, name) ==
    IF ops = <<>> THEN RegistryGet(start, name)
    ELSE LET last == ops[Len(ops)]
         IN  IF last.name = name THEN last.provider
             ELSE Current(start, SubSeq(ops, 1, Len(ops) - 1), name)

\* C31: under any interleaving of register_provider, unregister_provider and
\* get_provider, a lookup resolves its name to the provider most recently
\* registered under it and not unregistered since (which it returns, or refuses
\* for the model, never another provider) and fails with provider-not-found when
\* there is none; unregistering an absent name leaves the registry as it was;
\* and a mutation made after a lookup does not change what the lookup resolved.
C31_LastRegisteredWins ==
    /\ [](routeResult.called =>
            LET name == routeResult.request.provider
                cur == Current(regLog.start, SubSeq(regLog.ops, 1, regLog.at), name)
            IN  IF cur = NoProvider
                THEN routeResult.result = Raise("ModelRouterError", NotFoundMessage(name))
                ELSE IF supports_model(cur, routeResult.request.model)
                THEN routeResult.result = Return(cur)
                ELSE routeResult.result =
                        Raise("ModelRouterError", NotSupportedMessage(name, routeResult.request.model)))
    /\ [][regLog'.ops # regLog.ops =>
            LET last == regLog'.ops[Len(regLog'.ops)]
            IN  /\ routeResult' = routeResult
                /\ (last.op = "unregister" /\ Current(regLog.start, regLog.ops, last.name) = NoProvider)
                        => providers' = providers]_vars

\* A lookup that came after a name was registered twice and returned the second
\* provider, and one that came after the name was unregistered.
C31_Witness ==
    /\ routeResult.called /\ regLog.at = 2
    /\ regLog.ops[1] = LogRegister("anthropic", Instance("AnthropicProvider", "a1"))
    /\ regLog.ops[2] = LogRegister("anthropic", Instance("AnthropicProvider", "a2"))
    /\ routeResult.result = Return(Instance("AnthropicProvider", "a2"))

C31_WitnessUnregistered ==
    /\ routeResult.called /\ regLog.at = 2
    /\ regLog.ops[1].op = "register" /\ regLog.ops[2].op = "unregister"
    /\ regLog.ops[1].name = regLog.ops[2].name
    /\ routeResult.request.provider = regLog.ops[1].name
    /\ routeResult.result.raised

\* A lookup that had returned a provider, and the provider unregistered since.
C31_WitnessResolvedKept ==
    /\ routeResult.called /\ ~routeResult.result.raised
    /\ routeResult.request.provider \notin DOMAIN providers

(***************************************************************************)
(* SpecToolArguments: how tool/execute turns its `arguments` map into the  *)
(* call skill.execute(input_text, config).  toolCall keeps the arguments   *)
(* of the latest call and the skill call made from them, if one was made.  *)
(***************************************************************************)
ToolArgumentKeys == {"input", "text", "symbol", "precision"}
ToolArgumentValues == {"2+2", "hi", ""}
ToolArguments == UNION {[K -> ToolArgumentValues] : K \in SUBSET ToolArgumentKeys}
ToolCallNames == {"echo", "nope"}

\* Mutant: the config map made of the whole argument map.
ToolConfigAll(arguments) == arguments

\* config = {k: v for k, v in arguments.items() if k not in ("input", "text")}
ToolConfig(arguments) ==
    [k \in {key \in DOMAIN arguments : key \notin {"input", "text"}} |-> arguments[k]]

InitToolArguments ==
    /\ toolCall = [used |-> TRUE, done |-> FALSE]
    /\ skills = BasicSkills
    /\ skCall = NoSkillCall
    /\ skRuns = <<>>
    /\ skResult = NoSkillResult
    /\ DispatchIdle /\ RouterIdle /\ ImageIdle /\ ExecuteIdle
    /\ StreamIdle /\ GenerateIdle /\ HealthIdle
    /\ BuiltIdle /\ SideCallIdle /\ CapsIdle /\ ConvIdle
    /\ ReleaseIdle /\ StdioIdle /\ ImgCallIdle /\ BackRefIdle
    /\ RegLogIdle /\ StIdsIdle /\ StopLogIdle /\ GenWireIdle

\* handle_execute for params {"name": name, "arguments": arguments}: the skill
\* is looked up first, and called with the input text and the config map.
ToolExecuteArguments(name, arguments) ==
    /\ toolCall' =
        [used |-> TRUE, done |-> TRUE, name |-> name, arguments |-> arguments,
         called |-> get_skill(skills, name) # NoSkill,
         input_text |-> IF get_skill(skills, name) = NoSkill THEN "" ELSE InputText(arguments),
         config |-> IF get_skill(skills, name) = NoSkill THEN <<>> ELSE ToolConfig(arguments)]
    /\ UNCHANGED <<dvars, rvars, ivars, evars, svars, gvars, hvars, kvars,
                   built, sideCall, caps, conv, stRelease, stdio, imgCall, backRef,
                   regLog, stIds, stopLog, genWire>>

NextToolArguments ==
    \E name \in ToolCallNames, arguments \in ToolArguments : ToolExecuteArguments(name, arguments)

SpecToolArguments == InitToolArguments /\ [][NextToolArguments]_vars

\* C32: when tool/execute calls the skill, the input text is the value of key
\* "input" if the argument map has it, else the value of key "text", else the
\* empty string; and the config map has exactly the other keys of the argument
\* map, each with its value.
C32_ArgumentMapping ==
    (toolCall.done /\ toolCall.called) =>
        LET arguments == toolCall.arguments
        IN  /\ "input" \in DOMAIN arguments => toolCall.input_text = arguments["input"]
            /\ ("input" \notin DOMAIN arguments /\ "text" \in DOMAIN arguments)
                    => toolCall.input_text = arguments["text"]
            /\ ("input" \notin DOMAIN arguments /\ "text" \notin DOMAIN arguments)
                    => toolCall.input_text = ""
            /\ DOMAIN toolCall.config = DOMAIN arguments \ {"input", "text"}
            /\ \A k \in DOMAIN toolCall.config : toolCall.config[k] = arguments[k]

\* A call with both text keys and two others: "input" wins, the others are the config.
C32_Witness ==
    /\ toolCall.done /\ toolCall.called
    /\ DOMAIN toolCall.arguments = ToolArgumentKeys
    /\ toolCall.arguments["input"] # toolCall.arguments["text"]
    /\ toolCall.input_text = toolCall.arguments["input"]
    /\ DOMAIN toolCall.config = {"symbol", "precision"}

\* A call with "text" only among the text keys.
C32_WitnessText ==
    /\ toolCall.done /\ toolCall.called
    /\ DOMAIN toolCall.arguments = {"text", "symbol"}
    /\ toolCall.input_text = toolCall.arguments["text"] /\ toolCall.input_text # ""

(***************************************************************************)
(* SpecGenerateWire: Generate between the wire and the use case.  The use  *)
(* case is any object with an execute method, as the servicer is given it: *)
(* it returns an AIResponse or raises.  genWire keeps the wire request,    *)
(* the domain requests execute was called with, its outcome, and the wire  *)
(* response.                                                               *)
(***************************************************************************)
TokenCounts == {0, 10}
ModelsUsed == {"provider/model", "gemini-3-flash"}
ResponseContents == {"Hello from AI", "content-2"}

\* The outcomes of generate_use_case.execute: an AIResponse, or a fault.
ExecuteAnswers ==
    {Return([content |-> c, model_used |-> m, tokens_used |-> t]) :
        c \in ResponseContents, m \in ModelsUsed, t \in TokenCounts}
        \cup {Raise("ValueError", "No suitable provider found: x"),
              Raise("RuntimeError", "Provider gemini is not available"),
              Raise("APIError", "backend fault")}

\* Mutant: a response message that leaves tokens_used unset, which reads as 0.
GenerateResponseMessageUncounted(ai_response) ==
    [sent |-> TRUE, content |-> ai_response.content, model_used |-> ai_response.model_used,
     tokens_used |-> 0]

\* ai_service_pb2.GenerateResponse(content=ai_response.content,
\* model_used=ai_response.model_used, tokens_used=ai_response.tokens_used, ...)
GenerateResponseMessage(ai_response) ==
    [sent |-> TRUE, content |-> ai_response.content, model_used |-> ai_response.model_used,
     tokens_used |-> ai_response.tokens_used]

InitGenerateWire ==
    /\ genWire = [used |-> TRUE, pc |-> "idle", request |-> NoRequest, executed |-> <<>>,
                  answer |-> NoResult, response |-> NoWireResponse, status |-> NoStatus]
    /\ DispatchIdle /\ RouterIdle /\ ImageIdle /\ ExecuteIdle
    /\ StreamIdle /\ GenerateIdle /\ HealthIdle /\ SkillIdle
    /\ BuiltIdle /\ SideCallIdle /\ CapsIdle /\ ConvIdle
    /\ ReleaseIdle /\ StdioIdle /\ ImgCallIdle /\ BackRefIdle
    /\ RegLogIdle /\ ToolCallIdle /\ StIdsIdle /\ StopLogIdle

GenerateWireUnchanged ==
    UNCHANGED <<dvars, rvars, ivars, evars, svars, gvars, hvars, kvars,
                built, sideCall, caps, conv, stRelease, stdio, imgCall, backRef,
                regLog, toolCall, stIds, stopLog>>

\* Generate(request, context) up to the await of execute: the request is
\* converted, and either the conversion raises and the call is aborted, or
\* execute is called with the domain request.
GenerateWireCall(request) ==
    /\ genWire.pc \in {"idle", "done"}
    /\ LET r == to_domain_request(request)
       IN  genWire' =
            IF r.raised
            THEN [used |-> TRUE, pc |-> "done", request |-> request, executed |-> <<>>,
                  answer |-> NoResult, response |-> NoWireResponse, status |-> StatusOf(r)]
            ELSE [used |-> TRUE, pc |-> "execute", request |-> request, executed |-> <<r.value>>,
                  answer |-> NoResult, response |-> NoWireResponse, status |-> NoStatus]
    /\ GenerateWireUnchanged

\* execute returns or raises: the response is built and returned, or an
\* except clause aborts the call.
GenerateWireAnswer(a) ==
    /\ genWire.pc = "execute"
    /\ genWire' = [genWire EXCEPT
            !.pc = "done",
            !.answer = a,
            !.response = IF a.raised THEN NoWireResponse ELSE GenerateResponseMessage(a.value),
            !.status = IF a.raised THEN StatusOf(a) ELSE OkStatus]
    /\ GenerateWireUnchanged

NextGenerateWire ==
    \/ \E request \in WireRequests : GenerateWireCall(request)
    \/ \E a \in ExecuteAnswers : GenerateWireAnswer(a)

SpecGenerateWire == InitGenerateWire /\ [][NextGenerateWire]_vars

GenerateSucceeded == genWire.used /\ genWire.pc = "done" /\ genWire.status = OkStatus

\* C33: a Generate call that succeeded called execute exactly once, with a
\* domain request whose prompt, model and provider are those of the wire
\* request, and its wire response has the content, model_used and tokens_used
\* of the result execute returned.
C33_GeneratePassThrough ==
    GenerateSucceeded =>
        /\ Len(genWire.executed) = 1
        /\ genWire.executed[1].prompt = genWire.request.prompt
        /\ genWire.executed[1].model = genWire.request.model
        /\ genWire.executed[1].provider = genWire.request.provider
        /\ genWire.response.sent
        /\ genWire.response.content = genWire.answer.value.content
        /\ genWire.response.model_used = genWire.answer.value.model_used
        /\ genWire.response.tokens_used = genWire.answer.value.tokens_used

\* The call of test_generate_success: a request with defaults left to the
\* servicer, answered with ten tokens.
C33_Witness ==
    /\ GenerateSucceeded
    /\ genWire.request.prompt = "Hello" /\ genWire.request.provider = "antigravity"
    /\ genWire.request.top_p = 0
    /\ genWire.executed[1].top_p = 10
    /\ genWire.response = [sent |-> TRUE, content |-> "Hello from AI",
                           model_used |-> "provider/model", tokens_used |-> 10]

(***************************************************************************)
(* The dispatch loop, line by line.                                        *)
(***************************************************************************)
\* The id a response to line l carries: the request's id, null for a line that
\* is no JSON object.
AnswerId(l) == IF l.kind = "object" THEN MsgId(l) ELSE PyNone

\* C35 (as claimed): every non-blank line the loop has handled to the end is
\* either a notification, for which nothing is written, or is answered by
\* exactly one output line carrying the request's id (null for a parse
\* error); no other line is left unanswered and none is answered twice.
C35_EveryLineAnswered ==
    \A n \in 1..nread :
        (Completed(n) /\ lines[n].kind # "blank") =>
            IF IsNotification(lines[n])
            THEN OutOf(n) = <<>>
            ELSE /\ Len(OutOf(n)) = 1
                 /\ OutOf(n)[1].line.id = AnswerId(lines[n])

\* C35 for the lines handle_request has a branch for: JSON objects whose
\* method, if present, is a string, and lines json.loads rejects with
\* JSONDecodeError.  And no line at all is answered twice.
C35_MessagesAnswered ==
    \A n \in 1..nread :
        /\ Len(OutOf(n)) <= 1
        /\ (Completed(n) /\ (IsRpcMessage(lines[n]) \/ lines[n].kind = "notjson")) =>
              IF IsNotification(lines[n])
              THEN OutOf(n) = <<>>
              ELSE /\ Len(OutOf(n)) = 1
                   /\ OutOf(n)[1].line.id = AnswerId(lines[n])

\* A line of valid JSON that is no object, and a request with an id whose
\* method is a list, were handled to the end and nothing was written.
C35_Witness ==
    /\ nread = 2 /\ Completed(2)
    /\ lines[1].kind = "nonobject"
    /\ lines[2] = ObjectLine({"id", "method"}, JInt("1"), JList)
    /\ out = <<>>

\* C36: a line is read only when no line is being handled and no response is
\* waiting to be written, so at most one handler is in flight; and the
\* responses are on the output in the order their requests arrived.
C36_OneLineAtATime ==
    /\ [][nread' # nread =>
            /\ pc = "loop" /\ resp = NoResponse
            /\ nread' = nread + 1
            /\ \A i \in 1..Len(calls) : calls[i].n <= nread]_vars
    /\ [](\A i, j \in 1..Len(out) : i < j => out[i].n < out[j].n)
    /\ [](\A i \in 1..Len(out) : out[i].n <= nread)
    /\ [](pc \in {"handle", "write"} => \A i \in 1..Len(out) : out[i].n < nread)

\* Two requests were answered, the first before the second was read.
C36_Witness ==
    /\ nread = 2 /\ Completed(2)
    /\ MsgId(lines[1]) = JInt("1") /\ MsgId(lines[2]) = JInt("0")
    /\ Len(out) = 2
    /\ out[1].n = 1 /\ out[1].line.id = JInt("1")
    /\ out[2].n = 2 /\ out[2].line.id = JInt("0")

\* The fault of the router or of the provider in a sequence of calls, if any.
FaultIn(trace) == trace[CHOOSE i \in DOMAIN trace : trace[i].ret.raised].ret

\* C37: when get_provider or the provider's generate raised in a
\* provider/generate call, handle_generate returns a result with finish_reason
\* "error", tokens_used 0 and content "Error: " followed by the fault's
\* description, and the dispatcher answers with the success envelope of that
\* result, never an error envelope; when the messages yield no prompt it
\* returns finish_reason "error" with empty content and the router is not
\* consulted.
C37_FaultsReturned ==
    (sideCall.used /\ sideCall.pc = "done") =>
        LET r == sideCall.result
        IN  /\ (\E i \in DOMAIN sideCall.trace : sideCall.trace[i].ret.raised) =>
                  /\ ~r.raised
                  /\ r.value.finish_reason = "error"
                  /\ r.value.tokens_used = 0
                  /\ r.value.content = "Error: " \o FaultIn(sideCall.trace).message
                  /\ IsSuccess(sideCall.envelope) /\ ~IsError(sideCall.envelope)
                  /\ sideCall.envelope.id = SideRequestId
                  /\ sideCall.envelope.result = r.value
            /\ build_prompt(sideCall.params.messages).prompt = "" =>
                  /\ ~r.raised
                  /\ r.value.finish_reason = "error"
                  /\ r.value.content = ""
                  /\ sideCall.trace = <<>>

\* A call whose provider was not registered, one whose provider's generate
\* raised, and one without a prompt.
C37_Witness ==
    /\ sideCall.used
    /\ Len(sideCall.trace) = 1 /\ sideCall.trace[1].ret.raised
    /\ sideCall.params.provider \notin DOMAIN providers
    /\ IsSuccess(sideCall.envelope)

C37_WitnessProviderFault ==
    /\ sideCall.used
    /\ Len(sideCall.trace) = 2 /\ sideCall.trace[2].op = "generate"
    /\ sideCall.trace[2].ret = Raise("APIError", "backend fault")
    /\ sideCall.result.value.content = "Error: backend fault"

C37_WitnessNoPrompt ==
    /\ sideCall.used /\ sideCall.pc = "done" /\ sideCall.params.messages = <<>>
    /\ sideCall.result.value.content = ""

(***************************************************************************)
(* SpecStreamChunks: a GenerateStream call as the wire sees it.  The use   *)
(* case is any object whose execute_stream yields fragments, ends, or      *)
(* raises.  stIds keeps the domain request built for the call, the         *)
(* request_id read from it before the loop, the chunks sent and the status *)
(* the call ended with.                                                    *)
(***************************************************************************)
ChunkFragments == {"", "a", "b"}
ChunkFaults ==
    {Raise("ValueError", "No suitable provider found: x"),
     Raise("RuntimeError", "Provider 'gemini' is not available"),
     Raise("APIError", "backend fault")}
ChunkRequests == {q \in WireRequests : q.max_tokens = 0 /\ q.top_p = 0 /\ q.provider = "gemini"}

\* Mutant: chunks that leave request_id unset, which reads as the empty string.
GenerateStreamChunkAnonymous(request_id, content, is_final) ==
    [request_id |-> "", content |-> content, is_final |-> is_final]

\* ai_service_pb2.GenerateStreamChunk(request_id=request_id, content=..., is_final=...)
GenerateStreamChunk(request_id, content, is_final) ==
    [request_id |-> request_id, content |-> content, is_final |-> is_final]

NoDomainRequest == [id |-> "", prompt |-> "", model |-> Model("", ""), provider |-> ""]

InitStreamChunks ==
    /\ stIds = [used |-> TRUE, pc |-> "idle", domain |-> NoDomainRequest, request_id |-> "",
                wire |-> <<>>, status |-> NoStatus]
    /\ DispatchIdle /\ RouterIdle /\ ImageIdle /\ ExecuteIdle
    /\ StreamIdle /\ GenerateIdle /\ HealthIdle /\ SkillIdle
    /\ BuiltIdle /\ SideCallIdle /\ CapsIdle /\ ConvIdle
    /\ ReleaseIdle /\ StdioIdle /\ ImgCallIdle /\ BackRefIdle
    /\ RegLogIdle /\ ToolCallIdle /\ GenWireIdle /\ StopLogIdle

StreamChunksUnchanged ==
    UNCHANGED <<dvars, rvars, ivars, evars, svars, gvars, hvars, kvars,
                built, sideCall, caps, conv, stRelease, stdio, imgCall, backRef,
                regLog, toolCall, genWire, stopLog>>

\* GenerateStream up to its loop: the request is converted, which gives the
\* domain request the fresh id `id`, and request_id is read from it; a
\* conversion that raises ends the call with no chunk.
ChunksCall(q, id) ==
    /\ stIds.pc \in {"idle", "done"}
    /\ LET r == to_domain_request(q)
           ai_request == [id |-> id, prompt |-> q.prompt, model |-> q.model, provider |-> q.provider]
       IN  stIds' =
            IF r.raised
            THEN [used |-> TRUE, pc |-> "done", domain |-> NoDomainRequest, request_id |-> "",
                  wire |-> <<>>, status |-> StatusOf(r)]
            ELSE [used |-> TRUE, pc |-> "stream", domain |-> ai_request,
                  request_id |-> ai_request.id, wire |-> <<>>, status |-> NoStatus]
    /\ StreamChunksUnchanged

\* execute_stream yields a fragment: a not-final chunk is yielded, and the
\* handler is suspended at this yield.
ChunksFragment(f) ==
    /\ stIds.pc = "stream"
    /\ Len(stIds.wire) < MaxFragments
    /\ stIds' = [stIds EXCEPT !.wire = Append(@, GenerateStreamChunk(stIds.request_id, f, FALSE)),
                              !.pc = "sent"]
    /\ StreamChunksUnchanged

\* The framework resumes the handler, whose loop asks execute_stream again.
ChunksResume ==
    /\ stIds.pc = "sent"
    /\ stIds' = [stIds EXCEPT !.pc = "stream"]
    /\ StreamChunksUnchanged

\* execute_stream ends: the closing chunk is yielded, and the handler is
\* suspended at this yield.
ChunksEnd ==
    /\ stIds.pc = "stream"
    /\ stIds' = [stIds EXCEPT !.wire = Append(@, GenerateStreamChunk(stIds.request_id, "", TRUE)),
                              !.pc = "return"]
    /\ StreamChunksUnchanged

\* The framework resumes the handler after the closing chunk: the handler
\* returns and the call ends.
ChunksReturn ==
    /\ stIds.pc = "return"
    /\ stIds' = [stIds EXCEPT !.status = OkStatus, !.pc = "done"]
    /\ StreamChunksUnchanged

\* The client goes away while the handler is suspended, awaiting
\* execute_stream or at one of its yields: the call ends there.
ChunksCancel ==
    /\ stIds.pc \in {"stream", "sent", "return"}
    /\ stIds' = [stIds EXCEPT !.status = Abort("CANCELLED", ""), !.pc = "done"]
    /\ StreamChunksUnchanged

\* execute_stream raises: an except clause aborts the call.
ChunksFault(fault) ==
    /\ stIds.pc = "stream"
    /\ stIds' = [stIds EXCEPT !.status = StatusOf(fault), !.pc = "done"]
    /\ StreamChunksUnchanged

NextStreamChunks ==
    \/ \E q \in ChunkRequests, id \in RequestIds : ChunksCall(q, id)
    \/ \E f \in ChunkFragments : ChunksFragment(f)
    \/ ChunksResume
    \/ ChunksEnd
    \/ ChunksReturn
    \/ \E fault \in ChunkFaults : ChunksFault(fault)
    \/ ChunksCancel

SpecStreamChunks == InitStreamChunks /\ [][NextStreamChunks]_vars

FinalIndexes(wire) == {i \in DOMAIN wire : wire[i].is_final}

\* C38: in every GenerateStream call, ended by an error or not, at most one
\* sent chunk is final, it is the last chunk sent (every not-final chunk
\* precedes it and nothing is sent once it is), and every chunk carries the
\* id of the domain request built for the call.
C38_OneFinalOneId ==
    /\ [](stIds.used =>
            /\ Cardinality(FinalIndexes(stIds.wire)) <= 1
            /\ \A i \in FinalIndexes(stIds.wire) :
                    i = Len(stIds.wire) /\ stIds.pc \in {"return", "done"}
            /\ \A i \in DOMAIN stIds.wire :
                    /\ stIds.domain # NoDomainRequest
                    /\ stIds.wire[i].request_id = stIds.domain.id)
    /\ [][(stIds.used /\ FinalIndexes(stIds.wire) # {} /\ stIds'.wire # <<>>)
                => stIds'.wire = stIds.wire]_vars

\* A call that sent two chunks and the final chunk, all with the call's id,
\* after an earlier call with another id.
C38_Witness ==
    /\ stIds.used /\ stIds.pc = "done" /\ stIds.status = OkStatus
    /\ Len(stIds.wire) = MaxFragments + 1
    /\ stIds.domain.id = "uuid-2"
    /\ \A i \in DOMAIN stIds.wire : stIds.wire[i].request_id = "uuid-2"

\* A call that ended with an error after a chunk, and one that sent none.
C38_WitnessFault ==
    /\ stIds.used /\ stIds.pc = "done" /\ stIds.status.code = "INTERNAL"
    /\ Len(stIds.wire) = 1 /\ FinalIndexes(stIds.wire) = {}

C38_WitnessInvalid ==
    /\ stIds.used /\ stIds.pc = "done" /\ stIds.status.code = "INVALID_ARGUMENT"
    /\ stIds.domain = NoDomainRequest /\ stIds.wire = <<>>

\* A call whose client went away after the closing chunk: the chunk is the
\* last one sent and the call did not end OK.
C38_WitnessCancelled ==
    /\ stIds.used /\ stIds.pc = "done" /\ stIds.status.code = "CANCELLED"
    /\ Len(stIds.wire) = 2 /\ FinalIndexes(stIds.wire) = {2}

(***************************************************************************)
(* SpecStop: the dispatch loop with stop() called from outside run, at one *)
(* of the points where other code can run: before run has started, while   *)
(* run is suspended in connect_read_pipe, in reader.readline(), or in a    *)
(* handler.  stopLog keeps where run was when stop() was called, how many  *)
(* lines it had read by then, and whether a readline was pending.          *)
(***************************************************************************)
NotStopped == [used |-> TRUE, called |-> FALSE, phase |-> "", at |-> 0, waiting |-> FALSE]

InitStop ==
    /\ methods = RegisteredMethods
    /\ running = FALSE
    /\ pc = "start"
    /\ nread = 0
    /\ lines = <<>>
    /\ resp = NoResponse
    /\ out = <<>>
    /\ calls = <<>>
    /\ eof = FALSE
    /\ stopLog = NotStopped
    /\ RouterIdle /\ ImageIdle /\ ExecuteIdle
    /\ StreamIdle /\ GenerateIdle /\ HealthIdle /\ SkillIdle
    /\ BuiltIdle /\ SideCallIdle /\ CapsIdle /\ ConvIdle
    /\ ReleaseIdle /\ StdioIdle /\ ImgCallIdle /\ BackRefIdle
    /\ RegLogIdle /\ ToolCallIdle /\ StIdsIdle /\ GenWireIdle

StopUnchanged ==
    UNCHANGED <<rvars, ivars, evars, svars, gvars, hvars, kvars,
                built, sideCall, caps, conv, stRelease, stdio, imgCall, backRef,
                regLog, toolCall, stIds, genWire>>

\* stop(): self._running = False.  Called while run is suspended in readline
\* (the loop test has passed), the pending readline still returns its line.
StopCall ==
    /\ ~stopLog.called
    /\ pc \in {"start", "connect", "handle"} \/ (pc = "loop" /\ running)
    /\ running' = FALSE
    /\ stopLog' = [used |-> TRUE, called |-> TRUE, phase |-> pc, at |-> nread,
                   waiting |-> (pc = "loop")]
    /\ UNCHANGED <<methods, pc, nread, lines, resp, out, calls, eof>>
    /\ StopUnchanged

\* The readline that was pending when stop() was called returns a line: it is
\* decoded and dispatched as any other, and the loop test comes after it.
ReadLineStopped(l) ==
    /\ pc = "loop" /\ stopLog.waiting
    /\ nread < MaxLines
    /\ nread' = nread + 1
    /\ lines' = Append(lines, l)
    /\ pc' = IF l.kind \in {"blank", "badutf8", "overlong"} THEN "loop" ELSE "handle"
    /\ stopLog' = [stopLog EXCEPT !.waiting = FALSE]
    /\ UNCHANGED <<methods, running, resp, out, calls, eof>>
    /\ StopUnchanged

\* The pending readline returns b"": break.
ReadEOFStopped ==
    /\ pc = "loop" /\ stopLog.waiting
    /\ pc' = "exit"
    /\ eof' = TRUE
    /\ stopLog' = [stopLog EXCEPT !.waiting = FALSE]
    /\ UNCHANGED <<methods, running, nread, lines, resp, out, calls>>
    /\ StopUnchanged

\* The loop test is reached only when no readline is pending.
LoopExitStopped == ~stopLog.waiting /\ LoopExit

NextStop ==
    \/ Start
    \/ Connect
    \/ ReadEOF
    \/ \E l \in Lines : ReadLine(l)
    \/ \E o \in Outcomes : Dispatch(o)
    \/ WriteResponse
    \/ LoopExitStopped
    \/ Stop
    \/ StopCall
    \/ \E l \in Lines : ReadLineStopped(l)
    \/ ReadEOFStopped

SpecStop == InitStop /\ [][NextStop]_vars

\* The lines handed to handle_request among lines (from + 1)..nread.
DispatchedAfter(from) ==
    {n \in (from + 1)..nread : lines[n].kind \notin {"blank", "badutf8", "overlong"}}

\* C39 (as claimed): once stop() has been called, at most one further line
\* is dispatched before run returns, whether it was called before run
\* started, while run was waiting for input, or from inside a handler.
C39_StopNeverLost ==
    /\ stopLog.called => Cardinality(DispatchedAfter(stopLog.at)) <= 1
    /\ \A n \in 1..nread : ShutdownRanFor(n) => DispatchedAfter(n) = {}

\* C39 for a stop() called once run has started: at most one further line is
\* dispatched, and none when it was called from inside a handler.
C39_StopWhileRunning ==
    /\ (stopLog.called /\ stopLog.phase # "start") =>
            /\ Cardinality(DispatchedAfter(stopLog.at)) <= 1
            /\ stopLog.phase \in {"connect", "handle"} => DispatchedAfter(stopLog.at) = {}
    /\ \A n \in 1..nread : ShutdownRanFor(n) => DispatchedAfter(n) = {}

\* stop() was called before run started, and run went on to dispatch two
\* lines and is still in its loop.
C39_Witness ==
    /\ stopLog.called /\ stopLog.phase = "start"
    /\ Cardinality(DispatchedAfter(stopLog.at)) = 2
    /\ Len(out) = 2
    /\ pc = "loop" /\ running

\* stop() was called while run waited for input; the line that arrived was
\* dispatched and answered, and run returned.
C39_WitnessWaiting ==
    /\ stopLog.called /\ stopLog.phase = "loop" /\ stopLog.at = 1
    /\ nread = 2 /\ Len(OutOf(2)) = 1
    /\ pc = "stopped"


\* stop() was called while run was suspended in connect_read_pipe: run
\* returned without reading a line.
C39_WitnessConnecting ==
    /\ stopLog.called /\ stopLog.phase = "connect"
    /\ nread = 0 /\ out = <<>>
    /\ pc = "stopped"
====
